---- MODULE Spec2Model ----
(***************************************************************************)
(* A model of the AI-gateway proxy: the gateway configuration cache        *)
(* (GatewayConfigService), the authentication gate (AuthMiddleware) and    *)
(* the request handler that composes them (ProxyServer).                   *)
(*                                                                         *)
(* Optional values (JS undefined / null) are sequences of length <= 1:     *)
(* <<>> is "nothing", <<x>> is the value x.                                *)
(***************************************************************************)
EXTENDS Integers, Sequences, FiniteSets, TLC

\* ------------------------------------------------------------------ bounds
\* Gateway revisions the management API may hand out (modified_on stamps).
MaxRev == 2
\* The clock is sampled around the multiples 0..MaxEpochs of the TTL.
MaxEpochs == 1
\* The longest token that follows the scheme in a cf-aig-authorization value.
MaxTokenLen == 2
\* The longest provider sub-path, in pieces (a piece is a "/" or a text without one).
MaxPathLen == 5
\* The largest header set handed to a header transform.
MaxHeaders == 3
\* The service calls that may be in progress together, after the startup one.
MaxCalls == 2

\* ------------------------------------------------------------ program data
\* GatewayConfigService.cacheTTL, in milliseconds.
cacheTTL == 5 * 60 * 1000

GatewayIds == {"gw1", "gw2"}

\* The AIGateway record: the fields the proxy reads, plus modified_on as the
\* revision that tells two fetched copies of one gateway apart. Successive
\* revisions of a gateway switch collect_logs, the one field the proxy acts on.
AIGateway ==
  {[id |-> i, modified_on |-> r, collect_logs |-> (r % 2 = 1)] :
     i \in GatewayIds, r \in 1..MaxRev}

\* Date.now() readings: each multiple of the TTL and the millisecond after it,
\* so that entry ages of 0, 1, TTL - 1, TTL and TTL + 1 all occur.
TimePoints == {k * cacheTTL + o : k \in 0..MaxEpochs, o \in {0, 1}}

None == <<>>
Some(x) == <<x>>

\* ---------------------------------------------------------------- JS Map
\* A Map is the sequence of its [key, value] pairs in insertion order.
MapIndex(m, k) == {i \in 1..Len(m) : m[i].key = k}

MapHas(m, k) == MapIndex(m, k) # {}

\* Map.prototype.get: the value stored under k, or undefined.
MapGet(m, k) ==
  IF MapHas(m, k) THEN Some(m[CHOOSE i \in MapIndex(m, k) : TRUE].value) ELSE None

\* Map.prototype.set: replaces the value of an existing key in place, appends a new key.
MapSet(m, k, v) ==
  IF MapHas(m, k)
    THEN [i \in 1..Len(m) |-> IF m[i].key = k THEN [key |-> k, value |-> v] ELSE m[i]]
    ELSE Append(m, [key |-> k, value |-> v])

\* Map.prototype.clear
MapClear(m) == <<>>

\* Map.prototype.size
MapSize(m) == Len(m)

\* Array.from(map.keys())
MapKeys(m) == [i \in 1..Len(m) |-> m[i].key]

VARIABLES
  cache,     \* GatewayConfigService.cache: Map<string, CacheEntry>
  now,       \* the wall clock read by Date.now()
  pc,        \* where the service call in progress is suspended ("idle": none)
  call,      \* the call in progress or, when idle, the last one completed
  req,       \* the inbound request (express Request) being handled
  res,       \* the responses sent for it (express Response), in order
  gateway,   \* the gateway configuration the request resolved to
  authState, \* the auth gate: "none", "unchecked", "allowed" or "rejected"
  nextCalls, \* how often the gate invoked its continuation next()
  stage,     \* the server: "down", "starting", "listening" (no request in
             \* progress), "resolving" (awaiting the config), "forwarding",
             \* "relaying" (the provider's answer is being passed on), "done"
             \* (the exchange is over)
  upstream,  \* the request handed to the proxy middleware, if any, and the
             \* provider's answer to it
  steps      \* the steps of the handler that ran for the request, in order

svcVars == <<cache, now, pc, call>>
httpVars == <<req, res, gateway, authState, nextCalls, stage, upstream, steps>>
vars ==
  <<cache, now, pc, call, req, res, gateway, authState, nextCalls, stage, upstream, steps>>

\* A call record: what was asked, what the call saw and did, what it returned.
NoCall ==
  [op |-> "none", id |-> "", cachedEntry |-> None, before |-> <<>>, startedAt |-> 0,
   fetches |-> 0, lists |-> 0, fetched |-> None, listed |-> <<>>, path |-> "none",
   result |-> None, stats |-> [size |-> 0, entries |-> <<>>]]

\* --------------------------------------------------- GatewayConfigService
\* Mutants of the validity test: the age is not looked at; the TTL bound is inclusive.
IsFreshAnyAge(cachedEntry, t) == cachedEntry # None

IsFreshInclusive(cachedEntry, t) ==
  cachedEntry # None /\ t - cachedEntry[1].timestamp <= cacheTTL

\* The validity test of line 323: a cached entry is served while its age is below the TTL.
IsFresh(cachedEntry, t) ==
  cachedEntry # None /\ t - cachedEntry[1].timestamp < cacheTTL

\* getGatewayConfig up to its await: a fresh entry is returned at once,
\* otherwise gatewayClient.getGateway is called and the call suspends.
GetGatewayConfig(gatewayId) ==
  /\ pc = "idle"
  /\ LET cachedEntry == MapGet(cache, gatewayId)
         c == [NoCall EXCEPT !.op = "get", !.id = gatewayId, !.cachedEntry = cachedEntry,
                             !.before = cache, !.startedAt = now]
     IN IF IsFresh(cachedEntry, now)
          THEN /\ call' = [c EXCEPT !.path = "hit", !.result = Some(cachedEntry[1].gateway)]
               /\ pc' = "idle"
          ELSE /\ call' = [c EXCEPT !.fetches = 1]
               /\ pc' = "get_await"
  /\ UNCHANGED <<cache, now>>

\* Mutant: a fetched config is stored only when the id had no entry.
GetFetchResolvedKeepsOld(fetchedGateway) ==
  /\ pc = "get_await"
  /\ fetchedGateway.id = call.id
  /\ cache' = IF MapHas(cache, call.id) THEN cache
              ELSE MapSet(cache, call.id, [gateway |-> fetchedGateway, timestamp |-> now])
  /\ call' = [call EXCEPT !.fetched = Some(fetchedGateway), !.path = "fetched",
                          !.result = Some(fetchedGateway)]
  /\ pc' = "idle"
  /\ UNCHANGED now

\* The fetch resolves: the result is cached under the requested id, stamped with
\* the time of the response, and returned.
GetFetchResolved(fetchedGateway) ==
  /\ pc = "get_await"
  /\ fetchedGateway.id = call.id
  /\ cache' = MapSet(cache, call.id, [gateway |-> fetchedGateway, timestamp |-> now])
  /\ call' = [call EXCEPT !.fetched = Some(fetchedGateway), !.path = "fetched",
                          !.result = Some(fetchedGateway)]
  /\ pc' = "idle"
  /\ UNCHANGED now

\* Mutant: no stale fallback, a failed fetch always yields null.
GetFetchRejectedNoFallback ==
  /\ pc = "get_await"
  /\ call' = [call EXCEPT !.path = "null", !.result = None]
  /\ pc' = "idle"
  /\ UNCHANGED <<cache, now>>

\* Mutant: a failed fetch resets the cache.
GetFetchRejectedClears ==
  /\ pc = "get_await"
  /\ IF call.cachedEntry # None
       THEN call' = [call EXCEPT !.path = "stale",
                                 !.result = Some(call.cachedEntry[1].gateway)]
       ELSE call' = [call EXCEPT !.path = "null", !.result = None]
  /\ cache' = MapClear(cache)
  /\ pc' = "idle"
  /\ UNCHANGED now

\* Mutant: a failed fetch stamps the stale entry anew.
GetFetchRejectedRearms ==
  /\ pc = "get_await"
  /\ IF call.cachedEntry # None
       THEN /\ call' = [call EXCEPT !.path = "stale",
                                    !.result = Some(call.cachedEntry[1].gateway)]
            /\ cache' = MapSet(cache, call.id, [gateway |-> call.cachedEntry[1].gateway,
                                                timestamp |-> now])
       ELSE /\ call' = [call EXCEPT !.path = "null", !.result = None]
            /\ cache' = cache
  /\ pc' = "idle"
  /\ UNCHANGED now

\* The fetch rejects (unknown id, transport error, invalid id): the entry read
\* before the fetch is the fallback, null is returned when there was none.
GetFetchRejected ==
  /\ pc = "get_await"
  /\ IF call.cachedEntry # None
       THEN call' = [call EXCEPT !.path = "stale",
                                 !.result = Some(call.cachedEntry[1].gateway)]
       ELSE call' = [call EXCEPT !.path = "null", !.result = None]
  /\ pc' = "idle"
  /\ UNCHANGED <<cache, now>>

\* What listGateways may resolve to: the account's gateways, each id once.
GatewayLists ==
  {l \in UNION {[1..n -> AIGateway] : n \in 0..Cardinality(GatewayIds)} :
     \A i, j \in 1..Len(l) : l[i].id = l[j].id => i = j}

\* Mutant: the loop stops one record short.
RECURSIVE CacheAllButLast(_, _, _)
CacheAllButLast(m, gateways, timestamp) ==
  IF Len(gateways) <= 1 THEN m
  ELSE CacheAllButLast(MapSet(m, Head(gateways).id,
                              [gateway |-> Head(gateways), timestamp |-> timestamp]),
                       Tail(gateways), timestamp)

\* The loop of initializeCache: every listed gateway is stored under its own id
\* with the one timestamp taken before the loop.
RECURSIVE CacheAll(_, _, _)
CacheAll(m, gateways, timestamp) ==
  IF gateways = <<>> THEN m
  ELSE CacheAll(MapSet(m, Head(gateways).id,
                       [gateway |-> Head(gateways), timestamp |-> timestamp]),
                Tail(gateways), timestamp)

\* initializeCache up to its await: gatewayClient.listGateways is called.
InitializeCache ==
  /\ pc = "idle"
  /\ call' = [NoCall EXCEPT !.op = "init", !.before = cache, !.lists = 1]
  /\ pc' = "init_await"
  /\ UNCHANGED <<cache, now>>

\* The listing resolves: every record is cached, all with the same timestamp.
InitListResolved(gateways) ==
  /\ pc = "init_await"
  /\ cache' = CacheAll(cache, gateways, now)
  /\ call' = [call EXCEPT !.listed = gateways, !.path = "listed"]
  /\ pc' = "idle"
  /\ UNCHANGED now

\* Mutant: a failed listing drops what was cached.
InitListRejectedClears ==
  /\ pc = "init_await"
  /\ cache' = MapClear(cache)
  /\ call' = [call EXCEPT !.path = "failed"]
  /\ pc' = "idle"
  /\ UNCHANGED now

\* The listing rejects: the error is logged and swallowed.
InitListRejected ==
  /\ pc = "init_await"
  /\ call' = [call EXCEPT !.path = "failed"]
  /\ pc' = "idle"
  /\ UNCHANGED <<cache, now>>

\* Mutant: only the oldest entry is removed.
ClearCacheOldestOnly ==
  /\ pc = "idle"
  /\ cache' = IF cache = <<>> THEN cache ELSE Tail(cache)
  /\ call' = [NoCall EXCEPT !.op = "clear", !.before = cache, !.path = "cleared"]
  /\ UNCHANGED <<now, pc>>

\* clearCache
ClearCache ==
  /\ pc = "idle"
  /\ cache' = MapClear(cache)
  /\ call' = [NoCall EXCEPT !.op = "clear", !.before = cache, !.path = "cleared"]
  /\ UNCHANGED <<now, pc>>

\* getCacheStats
GetCacheStats ==
  /\ pc = "idle"
  /\ call' = [NoCall EXCEPT !.op = "stats", !.path = "stats",
                            !.stats = [size |-> MapSize(cache), entries |-> MapKeys(cache)]]
  /\ UNCHANGED <<cache, now, pc>>

\* The clock moves on to a later instant.
Tick ==
  /\ \E t \in TimePoints : t > now /\ now' = t
  /\ UNCHANGED <<cache, pc, call>>

\* ------------------------------------- GatewayConfigService, calls overlapping
\* Calls are numbered in the order they start; call 0 is the initializeCache of
\* startup, which is over. pc and call hold one value per call. A call record
\* also notes what the call stored and when, the keys whose entry is the one it
\* stored, the calls whose entry it replaced, and the entry that was in the
\* cache when it fell back on the one it had read.
CallIds == 0..MaxCalls

NoOverlappingCall ==
  [op |-> "none", id |-> "", cachedEntry |-> None, path |-> "none", result |-> None,
   fetched |-> None, listed |-> <<>>, storedAt |-> None, holds |-> {}, replaced |-> {},
   cacheAtReturn |-> None]

\* The next call to start is the first one that has not started.
CanStart(n) == n \in 1..MaxCalls /\ pc[n] = "idle" /\ pc[n - 1] # "idle"

\* The calls whose stored entry is the current one for a key.
Holders(key) == {h \in CallIds : key \in call[h].holds}

\* A store under the given keys by call n: it holds them, the others lose them.
HoldsAfter(n, keys, entry) ==
  [h \in CallIds |->
     IF h = n THEN entry ELSE [call[h] EXCEPT !.holds = call[h].holds \ keys]]

\* getGatewayConfig up to its await, as call n.
GetGatewayConfigAs(n, gatewayId) ==
  /\ CanStart(n)
  /\ LET cachedEntry == MapGet(cache, gatewayId)
         c == [NoOverlappingCall EXCEPT !.op = "get", !.id = gatewayId,
                                        !.cachedEntry = cachedEntry]
     IN IF IsFresh(cachedEntry, now)
          THEN /\ call' = [call EXCEPT ![n] =
                             [c EXCEPT !.path = "hit",
                                       !.result = Some(cachedEntry[1].gateway)]]
               /\ pc' = [pc EXCEPT ![n] = "done"]
          ELSE /\ call' = [call EXCEPT ![n] = c]
               /\ pc' = [pc EXCEPT ![n] = "get_await"]
  /\ UNCHANGED <<cache, now>>

\* Mutant: the config is written into the entry that is there, whose timestamp stays.
FetchResolvedForTorn(n, fetchedGateway) ==
  /\ pc[n] = "get_await"
  /\ fetchedGateway.id = call[n].id
  /\ cache' = MapSet(cache, call[n].id,
                     [gateway |-> fetchedGateway,
                      timestamp |-> IF MapHas(cache, call[n].id)
                                      THEN MapGet(cache, call[n].id)[1].timestamp
                                      ELSE now])
  /\ call' = HoldsAfter(n, {call[n].id},
                        [call[n] EXCEPT !.fetched = Some(fetchedGateway),
                                        !.path = "fetched",
                                        !.result = Some(fetchedGateway),
                                        !.storedAt = Some(now),
                                        !.holds = {call[n].id},
                                        !.replaced = Holders(call[n].id)])
  /\ pc' = [pc EXCEPT ![n] = "done"]
  /\ UNCHANGED now

\* The fetch of call n resolves: the result is stored under the requested id
\* with the current time, whatever the cache holds by now, and returned.
FetchResolvedFor(n, fetchedGateway) ==
  /\ pc[n] = "get_await"
  /\ fetchedGateway.id = call[n].id
  /\ cache' = MapSet(cache, call[n].id, [gateway |-> fetchedGateway, timestamp |-> now])
  /\ call' = HoldsAfter(n, {call[n].id},
                        [call[n] EXCEPT !.fetched = Some(fetchedGateway),
                                        !.path = "fetched",
                                        !.result = Some(fetchedGateway),
                                        !.storedAt = Some(now),
                                        !.holds = {call[n].id},
                                        !.replaced = Holders(call[n].id)])
  /\ pc' = [pc EXCEPT ![n] = "done"]
  /\ UNCHANGED now

\* The fetch of call n rejects: the entry the call read before its await is
\* the fallback, null is returned when there was none.
FetchRejectedFor(n) ==
  /\ pc[n] = "get_await"
  /\ call' = [call EXCEPT ![n] =
                [call[n] EXCEPT !.path = IF call[n].cachedEntry # None
                                           THEN "stale" ELSE "null",
                                !.result = IF call[n].cachedEntry # None
                                             THEN Some(call[n].cachedEntry[1].gateway)
                                             ELSE None,
                                !.cacheAtReturn = MapGet(cache, call[n].id)]]
  /\ pc' = [pc EXCEPT ![n] = "done"]
  /\ UNCHANGED <<cache, now>>

\* initializeCache up to its await, as call n.
InitializeCacheAs(n) ==
  /\ CanStart(n)
  /\ call' = [call EXCEPT ![n] = [NoOverlappingCall EXCEPT !.op = "init"]]
  /\ pc' = [pc EXCEPT ![n] = "init_await"]
  /\ UNCHANGED <<cache, now>>

\* The listing of call n resolves: every record is stored, all with one timestamp.
ListResolvedFor(n, gateways) ==
  /\ pc[n] = "init_await"
  /\ cache' = CacheAll(cache, gateways, now)
  /\ LET keys == {gateways[i].id : i \in 1..Len(gateways)}
     IN call' = HoldsAfter(n, keys,
                           [call[n] EXCEPT !.listed = gateways, !.path = "listed",
                                           !.storedAt = Some(now), !.holds = keys,
                                           !.replaced = UNION {Holders(k) : k \in keys}])
  /\ pc' = [pc EXCEPT ![n] = "done"]
  /\ UNCHANGED now

\* The listing of call n rejects.
ListRejectedFor(n) ==
  /\ pc[n] = "init_await"
  /\ call' = [call EXCEPT ![n] = [call[n] EXCEPT !.path = "failed"]]
  /\ pc' = [pc EXCEPT ![n] = "done"]
  /\ UNCHANGED <<cache, now>>

\* clearCache, as call n: it runs to its end at once.
ClearCacheAs(n) ==
  /\ CanStart(n)
  /\ cache' = MapClear(cache)
  /\ call' = [h \in CallIds |->
                IF h = n THEN [NoOverlappingCall EXCEPT !.op = "clear", !.path = "cleared"]
                ELSE [call[h] EXCEPT !.holds = {}]]
  /\ pc' = [pc EXCEPT ![n] = "done"]
  /\ UNCHANGED now

\* What a listing resolves to where calls overlap: no gateway, or each
\* gateway once at one revision.
GatewayAt(i, r) == [id |-> i, modified_on |-> r, collect_logs |-> (r % 2 = 1)]

OverlapLists == {<<>>} \cup {<<GatewayAt("gw1", r), GatewayAt("gw2", r)>> : r \in 1..MaxRev}

\* ------------------------------------------------------------ JS strings
\* A string that the code takes apart is the sequence of its characters.
StartsWith(str, prefix) ==
  Len(str) >= Len(prefix) /\ SubSeq(str, 1, Len(prefix)) = prefix

\* String.prototype.substring(start)
Substring(str, start) == SubSeq(str, start + 1, Len(str))

WhiteSpace == {" ", "\t"}

\* String.prototype.trim
RECURSIVE TrimStart(_)
TrimStart(str) ==
  IF str # <<>> /\ Head(str) \in WhiteSpace THEN TrimStart(Tail(str)) ELSE str

RECURSIVE TrimEnd(_)
TrimEnd(str) ==
  IF str # <<>> /\ str[Len(str)] \in WhiteSpace
    THEN TrimEnd(SubSeq(str, 1, Len(str) - 1)) ELSE str

Trim(str) == TrimEnd(TrimStart(str))

\* JS truthiness of a string | undefined: undefined and "" are falsy.
Truthy(optStr) == optStr # None /\ optStr[1] # <<>>

\* ---------------------------------------------------------- AuthMiddleware
BearerPrefix == <<"B", "e", "a", "r", "e", "r", " ">>

\* req.headers[name]
Header(headers, name) ==
  IF name \in DOMAIN headers THEN Some(headers[name]) ELSE None

\* res.status(code).json({error, message})
JsonResponse(status, error, message) ==
  [status |-> status, error |-> error, message |-> message, upstreamBody |-> None]

Rejection(status, error, message) ==
  [next |-> FALSE, response |-> Some(JsonResponse(status, error, message))]

Allowance == [next |-> TRUE, response |-> None]

\* Mutant: the token is tested for emptiness without being trimmed.
ValidateAuthUntrimmed(gw, request) ==
  IF ~gw.collect_logs THEN Allowance
  ELSE LET authHeader == Header(request.headers, "cf-aig-authorization")
       IN IF ~Truthy(authHeader)
            THEN Rejection(401, "Unauthorized", "cf-aig-authorization header is required")
          ELSE IF ~StartsWith(authHeader[1], BearerPrefix)
            THEN Rejection(401, "Unauthorized",
                           "cf-aig-authorization header must start with \"Bearer \"")
          ELSE IF Substring(authHeader[1], 7) = <<>>
            THEN Rejection(403, "Forbidden", "Invalid authorization token")
            ELSE Allowance

\* Mutant: without a cf-aig-authorization header the Authorization header is read.
ValidateAuthAnyHeader(gw, request) ==
  IF ~gw.collect_logs THEN Allowance
  ELSE LET authHeader ==
             IF "cf-aig-authorization" \in DOMAIN request.headers
               THEN Header(request.headers, "cf-aig-authorization")
               ELSE Header(request.headers, "authorization")
       IN IF ~Truthy(authHeader)
            THEN Rejection(401, "Unauthorized", "cf-aig-authorization header is required")
          ELSE IF ~StartsWith(authHeader[1], BearerPrefix)
            THEN Rejection(401, "Unauthorized",
                           "cf-aig-authorization header must start with \"Bearer \"")
          ELSE LET token == Substring(authHeader[1], 7)
               IN IF token = <<>> \/ Len(Trim(token)) = 0
                    THEN Rejection(403, "Forbidden", "Invalid authorization token")
                    ELSE Allowance

\* The middleware validateAuth(gateway) run on a request: whether it calls
\* next(), and the response it sends otherwise.
ValidateAuth(gw, request) ==
  IF ~gw.collect_logs THEN Allowance
  ELSE LET authHeader == Header(request.headers, "cf-aig-authorization")
       IN IF ~Truthy(authHeader)
            THEN Rejection(401, "Unauthorized", "cf-aig-authorization header is required")
          ELSE IF ~StartsWith(authHeader[1], BearerPrefix)
            THEN Rejection(401, "Unauthorized",
                           "cf-aig-authorization header must start with \"Bearer \"")
          ELSE LET token == Substring(authHeader[1], 7)
               IN IF token = <<>> \/ Len(Trim(token)) = 0
                    THEN Rejection(403, "Forbidden", "Invalid authorization token")
                    ELSE Allowance

\* One run of the middleware against (req, res, next).
RunValidateAuth ==
  /\ authState = "unchecked"
  /\ gateway # None
  /\ LET out == ValidateAuth(gateway[1], req)
     IN /\ authState' = IF out.next THEN "allowed" ELSE "rejected"
        /\ nextCalls' = IF out.next THEN nextCalls + 1 ELSE nextCalls
        /\ res' = IF out.next THEN res ELSE Append(res, out.response[1])
  /\ steps' = Append(steps, "auth")
  /\ UNCHANGED <<req, gateway, stage, upstream>>

\* ----------------------------------------------------------- requests
\* A request before any was received.
NoRequest ==
  [accountId |-> "", gatewayId |-> "", providerName |-> "", providerPath |-> <<>>,
   query |-> None, headers |-> <<>>]

\* The request of the middleware's unit tests: headers only.
MockReq(headers) == [NoRequest EXCEPT !.headers = headers]

\* Token texts over a letter and two kinds of white space.
TokenChars == {"x", " ", "\t"}

Tokens == UNION {[1..n -> TokenChars] : n \in 0..MaxTokenLen}

\* What may precede the token: the scheme as required, or a near miss of it.
Schemes ==
  { <<>>,
    BearerPrefix,
    <<"B", "e", "a", "r", "e", "r">>,
    <<"b", "e", "a", "r", "e", "r", " ">>,
    <<" ">> \o BearerPrefix,
    <<"B", "a", "s", "i", "c", " ">> }

AuthValues == {scheme \o token : scheme \in Schemes, token \in Tokens}

\* Header sets with and without a cf-aig-authorization header.
AuthHeaderSets ==
  {[n \in {"content-type"} |-> <<"j">>]}
  \cup {[n \in {"content-type", "cf-aig-authorization"} |->
          IF n = "content-type" THEN <<"j">> ELSE v] : v \in AuthValues}

\* Headers a request may carry besides: none, the gateway header under another
\* spelling, the provider's own credentials.
OtherHeaderSets ==
  { [n \in {} |-> <<>>],
    [n \in {"Cf-Aig-Authorization"} |-> BearerPrefix \o <<"x">>],
    [n \in {"authorization"} |-> BearerPrefix \o <<"x">>] }

\* The requests the gate is run on: each header set with and without the
\* other headers, for a bare mock request and for one routed to a provider.
AuthRequests ==
  {[MockReq([n \in DOMAIN h \cup DOMAIN o |-> IF n \in DOMAIN o THEN o[n] ELSE h[n]])
      EXCEPT !.providerName = p] :
     h \in AuthHeaderSets, o \in OtherHeaderSets, p \in {"", "openai"}}

\* --------------------------------------------------------- provider URLs
\* A path or URL is the sequence of its pieces, every "/" and "?" a piece of
\* its own; Text glues the pieces into the string.
RECURSIVE Text(_)
Text(pieces) == IF pieces = <<>> THEN "" ELSE Head(pieces) \o Text(Tail(pieces))

\* String.prototype.split('/')
RECURSIVE SplitSlash(_)
SplitSlash(pieces) ==
  IF pieces = <<>> THEN <<"">>
  ELSE IF Head(pieces) = "/" THEN <<"">> \o SplitSlash(Tail(pieces))
  ELSE LET rest == SplitSlash(Tail(pieces))
       IN <<Head(pieces) \o Head(rest)>> \o Tail(rest)

\* Array.prototype.join('/')
RECURSIVE JoinSlash(_)
JoinSlash(parts) ==
  IF parts = <<>> THEN ""
  ELSE IF Len(parts) = 1 THEN parts[1]
  ELSE parts[1] \o "/" \o JoinSlash(Tail(parts))

\* Array.prototype.slice(start)
Slice(parts, start) == SubSeq(parts, start + 1, Len(parts))

\* A replacement text cut into pieces, every $-pattern ($$, $&, $`, $') a piece
\* of its own, for the texts the model passes as replacements.
ReplacementPieces(value) ==
  CASE value = "$&" -> <<"$&">>
    [] value = "a$$b" -> <<"a", "$$", "b">>
    [] OTHER -> <<value>>

\* GetSubstitution: the text a replacement stands for, given the match and the
\* text before and after it.
RECURSIVE GetSubstitution(_, _, _, _)
GetSubstitution(replacement, matched, before, after) ==
  IF replacement = <<>> THEN ""
  ELSE LET piece == Head(replacement)
           text == CASE piece = "$$" -> "$"
                     [] piece = "$&" -> matched
                     [] piece = "$`" -> before
                     [] piece = "$'" -> after
                     [] OTHER -> piece
       IN text \o GetSubstitution(Tail(replacement), matched, before, after)

\* String.prototype.replace(placeholder, value) with a string pattern: the
\* first occurrence only, the $-patterns of the replacement expanded.
ReplaceFirst(pieces, placeholder, value) ==
  IF \E i \in 1..Len(pieces) : pieces[i] = placeholder
    THEN LET i == CHOOSE k \in 1..Len(pieces) :
                    pieces[k] = placeholder /\ \A j \in 1..(k - 1) : pieces[j] # placeholder
             before == SubSeq(pieces, 1, i - 1)
             after == SubSeq(pieces, i + 1, Len(pieces))
         IN before
              \o <<GetSubstitution(ReplacementPieces(value), placeholder,
                                   Text(before), Text(after))>>
              \o after
    ELSE pieces

\* originalUrl.substring(originalUrl.indexOf('?')), '' without a '?'.
RECURSIVE QueryString(_)
QueryString(pieces) ==
  IF pieces = <<>> THEN ""
  ELSE IF Head(pieces) = "?" THEN Text(pieces)
  ELSE QueryString(Tail(pieces))

\* PROVIDER_BASE_URLS
PROVIDER_BASE_URLS ==
  [p \in {"openai", "anthropic", "workers-ai", "google-ai-studio", "azure-openai",
          "aws-bedrock", "huggingface", "cohere"} |->
     CASE p = "openai" -> <<"https://api.openai.com/v1">>
       [] p = "anthropic" -> <<"https://api.anthropic.com/v1">>
       [] p = "workers-ai" ->
            <<"https://api.cloudflare.com/client/v4/accounts/", "{accountId}", "/ai/run">>
       [] p = "google-ai-studio" -> <<"https://generativelanguage.googleapis.com">>
       [] p = "azure-openai" -> <<>>
       [] p = "aws-bedrock" -> <<>>
       [] p = "huggingface" -> <<"https://api-inference.huggingface.co">>
       [] p = "cohere" -> <<"https://api.cohere.ai/v1">>]

Url(text) == [threw |-> FALSE, url |-> text, error |-> ""]
Threw(message) == [threw |-> TRUE, url |-> "", error |-> message]

\* Mutant: the base URL is used without the test for a missing one.
DefaultConstructTargetUrlUnchecked(accountId, providerName, providerPath, originalUrl) ==
  LET baseUrl == IF providerName \in DOMAIN PROVIDER_BASE_URLS
                   THEN PROVIDER_BASE_URLS[providerName] ELSE <<"undefined">>
  IN Url(Text(ReplaceFirst(baseUrl, "{accountId}", accountId)) \o "/" \o Text(providerPath))

\* Names every object literal answers to through Object.prototype: a lookup
\* of one of them in a table yields an inherited member, which is truthy and
\* no string.
ObjectPrototypeKeys == {"constructor", "toString", "__proto__"}

\* DefaultAdapter.constructTargetUrl
DefaultConstructTargetUrl(accountId, providerName, providerPath, originalUrl) ==
  IF providerName \in DOMAIN PROVIDER_BASE_URLS
    THEN IF Text(PROVIDER_BASE_URLS[providerName]) = ""
           THEN Threw("Unsupported provider: " \o providerName)
           ELSE LET finalBaseUrl ==
                      ReplaceFirst(PROVIDER_BASE_URLS[providerName], "{accountId}", accountId)
                IN Url(Text(finalBaseUrl) \o "/" \o Text(providerPath))
  ELSE IF providerName \in ObjectPrototypeKeys
    THEN Threw("TypeError: baseUrl.replace is not a function")
    ELSE Threw("Unsupported provider: " \o providerName)

\* Mutant: the query string of the original URL is not carried over.
AzureConstructTargetUrlNoQuery(accountId, providerName, providerPath, originalUrl) ==
  LET pathParts == SplitSlash(providerPath)
  IN IF Len(pathParts) < 2
       THEN Threw("Azure OpenAI path must include resource_name and deployment_name")
       ELSE Url("https://" \o pathParts[1] \o ".openai.azure.com/openai/deployments/"
                \o pathParts[2] \o "/" \o JoinSlash(Slice(pathParts, 2)))

\* AzureOpenAIAdapter.constructTargetUrl
AzureConstructTargetUrl(accountId, providerName, providerPath, originalUrl) ==
  LET pathParts == SplitSlash(providerPath)
  IN IF Len(pathParts) < 2
       THEN Threw("Azure OpenAI path must include resource_name and deployment_name")
       ELSE Url("https://" \o pathParts[1] \o ".openai.azure.com/openai/deployments/"
                \o pathParts[2] \o "/" \o JoinSlash(Slice(pathParts, 2))
                \o QueryString(originalUrl))

\* BedrockAdapter.constructTargetUrl
BedrockConstructTargetUrl(accountId, providerName, providerPath, originalUrl) ==
  LET pathParts == SplitSlash(providerPath)
  IN IF Len(pathParts) < 1
       THEN Threw("Bedrock path must include region")
       ELSE Url("https://bedrock-runtime." \o pathParts[1] \o ".amazonaws.com/"
                \o JoinSlash(Slice(pathParts, 1)))

\* AdapterFactory.getAdapter
\* Mutant: the provider name is matched whatever its letter case.
GetAdapterAnyCase(providerName) ==
  CASE providerName \in {"azure-openai", "Azure-OpenAI"} -> "AzureOpenAIAdapter"
    [] providerName = "aws-bedrock" -> "BedrockAdapter"
    [] OTHER -> "DefaultAdapter"

GetAdapter(providerName) ==
  CASE providerName = "azure-openai" -> "AzureOpenAIAdapter"
    [] providerName = "aws-bedrock" -> "BedrockAdapter"
    [] OTHER -> "DefaultAdapter"

\* adapter.constructTargetUrl, dispatched on the adapter's class.
ConstructTargetUrl(adapter, accountId, providerName, providerPath, originalUrl) ==
  CASE adapter = "AzureOpenAIAdapter" ->
         AzureConstructTargetUrl(accountId, providerName, providerPath, originalUrl)
    [] adapter = "BedrockAdapter" ->
         BedrockConstructTargetUrl(accountId, providerName, providerPath, originalUrl)
    [] OTHER ->
         DefaultConstructTargetUrl(accountId, providerName, providerPath, originalUrl)

\* ------------------------------------------------------- provider headers
\* A header set (a JS object) is a function from header names to values. The
\* characters of the header names the model uses, for the tests the code makes
\* on a name's text.
Chars(name) ==
  CASE name = "content-type" -> <<"c","o","n","t","e","n","t","-","t","y","p","e">>
    [] name = "host" -> <<"h","o","s","t">>
    [] name = "Host" -> <<"H","o","s","t">>
    [] name = "cf-aig-authorization" ->
         <<"c","f","-","a","i","g","-","a","u","t","h","o","r","i","z","a","t","i","o","n">>
    [] name = "cf-aig-cache-ttl" ->
         <<"c","f","-","a","i","g","-","c","a","c","h","e","-","t","t","l">>
    [] name = "CF-AIG-Custom" -> <<"C","F","-","A","I","G","-","C","u","s","t","o","m">>
    [] name = "Cf-Aig-Authorization" ->
         <<"C","f","-","A","i","g","-","A","u","t","h","o","r","i","z","a","t","i","o","n">>
    [] name = "authorization" -> <<"a","u","t","h","o","r","i","z","a","t","i","o","n">>
    [] name = "Authorization" -> <<"A","u","t","h","o","r","i","z","a","t","i","o","n">>
    [] name = "AUTHORIZATION" -> <<"A","U","T","H","O","R","I","Z","A","T","I","O","N">>
    [] name = "api-key" -> <<"a","p","i","-","k","e","y">>
    [] name = "x-amz-date" -> <<"x","-","a","m","z","-","d","a","t","e">>
    [] name = "cf-aig-" -> <<"c","f","-","a","i","g","-">>

UpperCase ==
  <<"A","B","C","D","E","F","G","H","I","J","K","L","M",
    "N","O","P","Q","R","S","T","U","V","W","X","Y","Z">>

LowerCase ==
  <<"a","b","c","d","e","f","g","h","i","j","k","l","m",
    "n","o","p","q","r","s","t","u","v","w","x","y","z">>

\* String.prototype.toLowerCase
ToLowerCase(str) ==
  [i \in 1..Len(str) |->
     IF \E k \in 1..Len(UpperCase) : UpperCase[k] = str[i]
       THEN LowerCase[CHOOSE k \in 1..Len(UpperCase) : UpperCase[k] = str[i]]
       ELSE str[i]]

\* delete obj[key]
Delete(obj, key) == [n \in DOMAIN obj \ {key} |-> obj[n]]

\* obj[key] = value
SetProp(obj, key, value) ==
  [n \in DOMAIN obj \cup {key} |-> IF n = key THEN value ELSE obj[n]]

\* key.toLowerCase().startsWith('cf-aig-')
IsGatewayHeader(key) == StartsWith(ToLowerCase(Chars(key)), Chars("cf-aig-"))

\* Mutant: one gateway-control header is removed per pass.
StripGatewayHeadersOnePerPass(transformed) ==
  IF \E key \in DOMAIN transformed : IsGatewayHeader(key)
    THEN Delete(transformed, CHOOSE key \in DOMAIN transformed : IsGatewayHeader(key))
    ELSE transformed

\* Mutant: only names that start with cf-aig- in lower case are removed.
StripGatewayHeadersCaseSensitive(transformed) ==
  [n \in {key \in DOMAIN transformed : ~StartsWith(Chars(key), Chars("cf-aig-"))} |->
     transformed[n]]

\* Object.keys(transformed).forEach(key => { if (...) delete transformed[key] })
StripGatewayHeaders(transformed) ==
  [n \in {key \in DOMAIN transformed : ~IsGatewayHeader(key)} |-> transformed[n]]

\* DefaultAdapter.transformHeaders
DefaultTransformHeaders(headers) ==
  StripGatewayHeaders(Delete(Delete(headers, "cf-aig-authorization"), "host"))

\* AzureOpenAIAdapter.transformHeaders
AzureTransformHeaders(headers) ==
  LET t0 == Delete(Delete(headers, "cf-aig-authorization"), "host")
      lower == Header(t0, "authorization")
      upper == Header(t0, "Authorization")
      t1 == IF Truthy(lower) \/ Truthy(upper)
              THEN LET authHeader == IF Truthy(lower) THEN lower[1] ELSE upper[1]
                       keyed == IF StartsWith(authHeader, BearerPrefix)
                                  THEN SetProp(t0, "api-key", Substring(authHeader, 7))
                                  ELSE t0
                   IN Delete(Delete(keyed, "authorization"), "Authorization")
              ELSE t0
  IN StripGatewayHeaders(t1)

\* Mutant: the Authorization header is dropped on the way.
BedrockTransformHeadersUnsigned(headers) ==
  Delete(StripGatewayHeaders(Delete(Delete(headers, "cf-aig-authorization"), "host")),
         "authorization")

\* BedrockAdapter.transformHeaders
BedrockTransformHeaders(headers) ==
  StripGatewayHeaders(Delete(Delete(headers, "cf-aig-authorization"), "host"))

\* adapter.transformHeaders, dispatched on the adapter's class.
TransformHeaders(adapter, headers) ==
  CASE adapter = "AzureOpenAIAdapter" -> AzureTransformHeaders(headers)
    [] adapter = "BedrockAdapter" -> BedrockTransformHeaders(headers)
    [] OTHER -> DefaultTransformHeaders(headers)

\* ------------------------------------------------------------ ProxyServer
\* req.originalUrl of a request routed under /v1.
OriginalUrl(r) ==
  <<"/v1/", r.accountId, "/", r.gatewayId, "/", r.providerName, "/">>
    \o r.providerPath \o (IF r.query = None THEN <<>> ELSE <<"?", r.query[1]>>)

\* The headers of the outgoing request when it is created: the proxy library
\* starts it from the inbound request's headers. The Host header is left out of
\* the record: with changeOrigin the library sets it to the target's host.
ProxyReqHeaders(r) == Delete(r.headers, "host")

\* onProxyReq: every transformed header with a truthy value is set on the
\* outgoing request; nothing is removed from it.
OnProxyReq(proxyReq, transformedHeaders) ==
  LET set == {key \in DOMAIN transformedHeaders : transformedHeaders[key] # <<>>}
  IN [n \in DOMAIN proxyReq \cup set |->
        IF n \in set THEN transformedHeaders[n] ELSE proxyReq[n]]

\* handleProxyRequest: the adapter is chosen, the target built, the headers
\* transformed and the proxy middleware started on them; a throw on the way is
\* answered with 500 unless a response is out already. ran: the steps so far.
HandleProxyRequest(r, ran) ==
  LET adapter == GetAdapter(r.providerName)
      targetUrl == ConstructTargetUrl(adapter, r.accountId, r.providerName,
                                      r.providerPath, OriginalUrl(r))
      transformedHeaders == TransformHeaders(adapter, r.headers)
  IN IF targetUrl.threw
       THEN /\ res' = IF res # <<>> THEN res
                      ELSE <<JsonResponse(500, "Internal Server Error",
                                          "Failed to setup proxy")>>
            /\ upstream' = None
            /\ steps' = ran \o <<"adapter", "url">>
            /\ stage' = "done"
       ELSE /\ res' = <<>>
            /\ upstream' = <<[adapter |-> adapter, target |-> targetUrl.url,
                              headers |-> OnProxyReq(ProxyReqHeaders(r), transformedHeaders),
                              response |-> None, error |-> None]>>
            /\ steps' = ran \o <<"adapter", "url", "headers", "forward">>
            /\ stage' = "forwarding"

\* Mutant: the handler goes on to the proxy after the gate has answered.
AfterResolveIgnoresRejection(r, resolved, ran) ==
  /\ gateway' = resolved
  /\ IF resolved = None
       THEN /\ res' = <<JsonResponse(404, "Not Found",
                                     "Gateway " \o r.gatewayId \o " not found")>>
            /\ authState' = "none"
            /\ nextCalls' = 0
            /\ upstream' = None
            /\ steps' = ran
            /\ stage' = "done"
       ELSE LET out == ValidateAuth(resolved[1], r)
            IN /\ authState' = IF out.next THEN "allowed" ELSE "rejected"
               /\ nextCalls' = 1
               /\ HandleProxyRequest(r, Append(ran, "auth"))

\* Mutant: a gateway that did not resolve is taken for one without auth.
AfterResolveSkips404(r, resolved, ran) ==
  /\ gateway' = resolved
  /\ IF resolved = None
       THEN /\ authState' = "none"
            /\ nextCalls' = 0
            /\ HandleProxyRequest(r, ran)
       ELSE LET out == ValidateAuth(resolved[1], r)
            IN IF out.next
                 THEN /\ authState' = "allowed"
                      /\ nextCalls' = 1
                      /\ HandleProxyRequest(r, Append(ran, "auth"))
                 ELSE /\ authState' = "rejected"
                      /\ nextCalls' = 0
                      /\ res' = <<out.response[1]>>
                      /\ upstream' = None
                      /\ steps' = Append(ran, "auth")
                      /\ stage' = "done"

\* The handler from the resolved configuration on: 404 without one, else the
\* auth gate, whose continuation is handleProxyRequest.
AfterResolve(r, resolved, ran) ==
  /\ gateway' = resolved
  /\ IF resolved = None
       THEN /\ res' = <<JsonResponse(404, "Not Found",
                                     "Gateway " \o r.gatewayId \o " not found")>>
            /\ authState' = "none"
            /\ nextCalls' = 0
            /\ upstream' = None
            /\ steps' = ran
            /\ stage' = "done"
       ELSE LET out == ValidateAuth(resolved[1], r)
            IN IF out.next
                 THEN /\ authState' = "allowed"
                      /\ nextCalls' = 1
                      /\ HandleProxyRequest(r, Append(ran, "auth"))
                 ELSE /\ authState' = "rejected"
                      /\ nextCalls' = 0
                      /\ res' = <<out.response[1]>>
                      /\ upstream' = None
                      /\ steps' = Append(ran, "auth")
                      /\ stage' = "done"

\* Mutant: the parameters are not validated before the lookup.
ReceiveUnvalidated(r) ==
  /\ stage = "listening"
  /\ req' = r
  /\ GetGatewayConfig(r.gatewayId)
  /\ IF pc' = "idle"
       THEN AfterResolve(r, call'.result, <<"parse", "resolve">>)
       ELSE /\ res' = <<>>
            /\ gateway' = None
            /\ authState' = "none"
            /\ nextCalls' = 0
            /\ upstream' = None
            /\ steps' = <<"parse", "resolve">>
            /\ stage' = "resolving"

\* The route handler up to its await: the parameters are validated and the
\* configuration is asked for; a cache hit lets the handler run on at once.
Receive(r) ==
  /\ stage = "listening"
  /\ req' = r
  /\ IF r.accountId = "" \/ r.gatewayId = "" \/ r.providerName = ""
       THEN /\ res' = <<JsonResponse(400, "Bad Request",
                 "Missing required parameters: accountId, gatewayId, or providerName")>>
            /\ gateway' = None
            /\ authState' = "none"
            /\ nextCalls' = 0
            /\ upstream' = None
            /\ steps' = <<"parse">>
            /\ stage' = "done"
            /\ UNCHANGED svcVars
       ELSE /\ GetGatewayConfig(r.gatewayId)
            /\ IF pc' = "idle"
                 THEN AfterResolve(r, call'.result, <<"parse", "resolve">>)
                 ELSE /\ res' = <<>>
                      /\ gateway' = None
                      /\ authState' = "none"
                      /\ nextCalls' = 0
                      /\ upstream' = None
                      /\ steps' = <<"parse", "resolve">>
                      /\ stage' = "resolving"

\* The handler resumes with the fetched configuration.
ResolveFetched(fetchedGateway) ==
  /\ stage = "resolving"
  /\ GetFetchResolved(fetchedGateway)
  /\ AfterResolve(req, call'.result, steps)
  /\ UNCHANGED req

\* The handler resumes after a failed fetch.
ResolveFailed ==
  /\ stage = "resolving"
  /\ GetFetchRejected
  /\ AfterResolve(req, call'.result, steps)
  /\ UNCHANGED req

\* The answers a provider gives: a completion, a refusal, a failure of its own.
UpstreamResponses ==
  { [status |-> 200, body |-> "{\"choices\":[]}"],
    [status |-> 400, body |-> "{\"error\":\"bad request\"}"],
    [status |-> 500, body |-> "{\"error\":\"provider down\"}"] }

\* What the caller is sent when the provider's answer arrives: its status line
\* and headers; the body follows.
Relayed(status) ==
  [status |-> status, error |-> "", message |-> "", upstreamBody |-> None]

\* Mutant: a provider's error status is answered with the proxy's own 502.
UpstreamRespondsMasksErrors(response) ==
  /\ stage = "forwarding"
  /\ upstream' = <<[upstream[1] EXCEPT !.response = Some(response)]>>
  /\ res' = Append(res, IF response.status >= 400
                          THEN JsonResponse(502, "Bad Gateway",
                                            "Failed to proxy request to AI provider")
                          ELSE Relayed(response.status))
  /\ stage' = "relaying"
  /\ UNCHANGED <<req, gateway, authState, nextCalls, steps>>
  /\ UNCHANGED svcVars

\* The provider answers: the proxy passes the status on as it is.
UpstreamResponds(response) ==
  /\ stage = "forwarding"
  /\ upstream' = <<[upstream[1] EXCEPT !.response = Some(response)]>>
  /\ res' = Append(res, Relayed(response.status))
  /\ stage' = "relaying"
  /\ UNCHANGED <<req, gateway, authState, nextCalls, steps>>
  /\ UNCHANGED svcVars

\* The provider's body has been piped to the caller, to its end.
RelayEnds ==
  /\ stage = "relaying"
  /\ res' = [res EXCEPT ![Len(res)].upstreamBody = Some(upstream[1].response[1].body)]
  /\ stage' = "done"
  /\ UNCHANGED <<req, gateway, authState, nextCalls, upstream, steps>>
  /\ UNCHANGED svcVars

\* Mutant: onError answers without looking at headersSent.
UpstreamFailsUnguarded ==
  /\ stage \in {"forwarding", "relaying"}
  /\ res' = Append(res, JsonResponse(502, "Bad Gateway",
                                     "Failed to proxy request to AI provider"))
  /\ upstream' = <<[upstream[1] EXCEPT !.error = Some("connection")]>>
  /\ stage' = "done"
  /\ UNCHANGED <<req, gateway, authState, nextCalls, steps>>
  /\ UNCHANGED svcVars

\* Mutant: a failed connection is reported as an internal error.
UpstreamFailsAs500 ==
  /\ stage \in {"forwarding", "relaying"}
  /\ res' = IF res = <<>>
              THEN <<JsonResponse(500, "Internal Server Error", "Proxy middleware failed")>>
              ELSE res
  /\ upstream' = <<[upstream[1] EXCEPT !.error = Some("connection")]>>
  /\ stage' = "done"
  /\ UNCHANGED <<req, gateway, authState, nextCalls, steps>>
  /\ UNCHANGED svcVars

\* Mutant: a failed connection is tried once more.
UpstreamFailsRetries ==
  /\ stage \in {"forwarding", "relaying"}
  /\ IF res = <<>> /\ Len(upstream) < 2
       THEN /\ upstream' = upstream \o <<upstream[1]>>
            /\ steps' = Append(steps, "forward")
            /\ UNCHANGED <<res, stage>>
       ELSE /\ res' = IF res = <<>>
                        THEN <<JsonResponse(502, "Bad Gateway",
                                            "Failed to proxy request to AI provider")>>
                        ELSE res
            /\ upstream' = <<[upstream[1] EXCEPT !.error = Some("connection")]>>
            /\ stage' = "done"
            /\ UNCHANGED steps
  /\ UNCHANGED <<req, gateway, authState, nextCalls>>
  /\ UNCHANGED svcVars

\* The provider cannot be reached, or the connection breaks while its answer
\* is passed on: onError answers 502 unless headers are out.
UpstreamFails ==
  /\ stage \in {"forwarding", "relaying"}
  /\ res' = IF res = <<>>
              THEN <<JsonResponse(502, "Bad Gateway", "Failed to proxy request to AI provider")>>
              ELSE res
  /\ upstream' = <<[upstream[1] EXCEPT !.error = Some("connection")]>>
  /\ stage' = "done"
  /\ UNCHANGED <<req, gateway, authState, nextCalls, steps>>
  /\ UNCHANGED svcVars

\* The proxy middleware hands an error to its callback: 500 unless headers are out.
ProxyMiddlewareFails ==
  /\ stage = "forwarding"
  /\ res' = IF res = <<>>
              THEN <<JsonResponse(500, "Internal Server Error", "Proxy middleware failed")>>
              ELSE res
  /\ upstream' = <<[upstream[1] EXCEPT !.error = Some("middleware")]>>
  /\ stage' = "done"
  /\ UNCHANGED <<req, gateway, authState, nextCalls, steps>>
  /\ UNCHANGED svcVars

\* The exchange is over: the handler's frame is gone and the server is ready
\* for the next request.
Finish ==
  /\ stage = "done"
  /\ pc = "idle"
  /\ stage' = "listening"
  /\ req' = NoRequest
  /\ res' = <<>>
  /\ gateway' = None
  /\ authState' = "none"
  /\ nextCalls' = 0
  /\ upstream' = None
  /\ steps' = <<>>
  /\ call' = NoCall
  /\ UNCHANGED <<cache, now, pc>>

\* startServer: the cache is preloaded, then the router is mounted.
StartServer ==
  /\ stage = "starting"
  /\ InitializeCache
  /\ UNCHANGED httpVars

StartListed(gateways) ==
  /\ stage = "starting"
  /\ InitListResolved(gateways)
  /\ stage' = "listening"
  /\ UNCHANGED <<req, res, gateway, authState, nextCalls, upstream, steps>>

StartListFailed ==
  /\ stage = "starting"
  /\ InitListRejected
  /\ stage' = "listening"
  /\ UNCHANGED <<req, res, gateway, authState, nextCalls, upstream, steps>>

\* The requests the model sends: a plain one, and it with one part varied.
PlainRequest ==
  [accountId |-> "acct", gatewayId |-> "gw1", providerName |-> "openai",
   providerPath |-> <<"chat", "/", "completions">>, query |-> None,
   headers |-> [n \in {"content-type", "host"} |-> <<"j">>]]

\* A header set with gateway-control headers and a provider credential.
ControlHeaders ==
  [n \in {"content-type", "host", "cf-aig-authorization", "cf-aig-cache-ttl",
          "authorization"} |->
     CASE n = "cf-aig-authorization" -> BearerPrefix \o <<"x">>
       [] n = "authorization" -> BearerPrefix \o <<"k">>
       [] n = "cf-aig-cache-ttl" -> <<"9">>
       [] OTHER -> <<"j">>]

RequestAuthValues ==
  { <<>>, BearerPrefix, BearerPrefix \o <<"x">>, <<"B", "a", "s", "i", "c", " ", "x">> }

Requests ==
  {PlainRequest}
  \cup {[PlainRequest EXCEPT !.gatewayId = id] : id \in GatewayIds \cup {""}}
  \cup {[PlainRequest EXCEPT !.accountId = ""], [PlainRequest EXCEPT !.providerName = ""]}
  \cup {[PlainRequest EXCEPT !.headers =
           [n \in {"content-type", "host", "cf-aig-authorization"} |->
              IF n = "cf-aig-authorization" THEN v ELSE <<"j">>]] : v \in RequestAuthValues}
  \cup {[PlainRequest EXCEPT !.providerName = p, !.headers = ControlHeaders,
                             !.providerPath = <<"res", "/", "dep", "/", "chat">>] :
          p \in {"openai", "azure-openai", "aws-bedrock"}}
  \cup {[PlainRequest EXCEPT !.providerName = p] : p \in {"workers-ai", "nosuch"}}
  \cup {[PlainRequest EXCEPT !.providerName = p, !.providerPath = path] :
          p \in {"azure-openai", "aws-bedrock"},
          path \in {<<>>, <<"res">>, <<"res", "/", "dep", "/", "chat">>}}
  \cup {[PlainRequest EXCEPT !.providerName = "azure-openai", !.query = Some("api-version=1"),
                             !.providerPath = <<"res", "/", "dep", "/", "chat">>]}

\* ------------------------------------------------- adapters called directly
\* An adapter is obtained, from the factory or by construction as in the unit
\* tests, and its two methods are called on the request's parts. The upstream
\* record holds the adapter and what the calls returned.
CallGetAdapter ==
  /\ upstream = None
  /\ upstream' = <<[adapter |-> GetAdapter(req.providerName), via |-> "getAdapter",
                    targetUrl |-> None, transformed |-> None, again |-> None]>>
  /\ steps' = Append(steps, "adapter")
  /\ UNCHANGED <<req, res, gateway, authState, nextCalls, stage>>
  /\ UNCHANGED svcVars

AdapterClasses == {"DefaultAdapter", "AzureOpenAIAdapter", "BedrockAdapter"}

NewAdapter(class) ==
  /\ upstream = None
  /\ upstream' = <<[adapter |-> class, via |-> "new", targetUrl |-> None,
                    transformed |-> None, again |-> None]>>
  /\ steps' = Append(steps, "adapter")
  /\ UNCHANGED <<req, res, gateway, authState, nextCalls, stage>>
  /\ UNCHANGED svcVars

CallConstructTargetUrl ==
  /\ upstream # None
  /\ upstream[1].targetUrl = None
  /\ upstream' = <<[upstream[1] EXCEPT !.targetUrl =
                      Some(ConstructTargetUrl(upstream[1].adapter, req.accountId,
                                              req.providerName, req.providerPath,
                                              OriginalUrl(req)))]>>
  /\ steps' = Append(steps, "url")
  /\ UNCHANGED <<req, res, gateway, authState, nextCalls, stage>>
  /\ UNCHANGED svcVars

\* transformHeaders works on a copy ({ ...headers }): the request keeps its headers.
CallTransformHeaders ==
  /\ upstream # None
  /\ upstream[1].transformed = None
  /\ upstream' = <<[upstream[1] EXCEPT !.transformed =
                      Some(TransformHeaders(upstream[1].adapter, req.headers))]>>
  /\ steps' = Append(steps, "headers")
  /\ UNCHANGED <<req, res, gateway, authState, nextCalls, stage>>
  /\ UNCHANGED svcVars

\* transformHeaders called on what transformHeaders returned.
CallTransformHeadersAgain ==
  /\ upstream # None
  /\ upstream[1].transformed # None
  /\ upstream[1].again = None
  /\ upstream' = <<[upstream[1] EXCEPT !.again =
                      Some(TransformHeaders(upstream[1].adapter,
                                            upstream[1].transformed[1]))]>>
  /\ steps' = Append(steps, "headers")
  /\ UNCHANGED <<req, res, gateway, authState, nextCalls, stage>>
  /\ UNCHANGED svcVars

\* Account ids, some of them with a $-pattern of String.prototype.replace.
AccountIds == {"acct", "$&", "a$$b"}

\* Provider names: those of the table, unknown ones, and one every object inherits.
ProviderNames ==
  DOMAIN PROVIDER_BASE_URLS \cup {"nosuch", "Azure-OpenAI"} \cup {"constructor"}

PathPieces == {"/", "x", "y"}

SubPaths == UNION {[1..n -> PathPieces] : n \in 0..MaxPathLen}

Queries == {None, Some(""), Some("api-version=1")}

HeaderNames ==
  {"content-type", "host", "Host", "cf-aig-authorization", "Cf-Aig-Authorization",
   "CF-AIG-Custom", "cf-aig-cache-ttl", "x-amz-date", "api-key",
   "authorization", "Authorization", "AUTHORIZATION"}

AuthorizationNames == {"authorization", "Authorization", "AUTHORIZATION"}

AuthorizationValues ==
  { BearerPrefix \o <<"k">>, BearerPrefix, <<>>, <<"B", "a", "s", "i", "c", " ", "k">> }

HeaderValues(name) ==
  IF name \in AuthorizationNames THEN AuthorizationValues ELSE {<<"v">>}

\* Header sets of at most MaxHeaders headers.
HeaderSets ==
  UNION {{h \in [names -> AuthorizationValues \cup {<<"v">>}] :
            \A n \in names : h[n] \in HeaderValues(n)} :
         names \in {ns \in SUBSET HeaderNames : Cardinality(ns) <= MaxHeaders}}

\* The inputs of the adapters: the sub-path and the query varied for one
\* provider of each adapter, then the account and the provider name, then the
\* headers, each under plain values of the rest.
AdapterRequests ==
  {[PlainRequest EXCEPT !.providerName = p, !.providerPath = path, !.query = q] :
     p \in {"workers-ai", "azure-openai", "aws-bedrock"}, path \in SubPaths, q \in Queries}
  \cup {[PlainRequest EXCEPT !.accountId = a, !.providerName = p, !.providerPath = path] :
          a \in AccountIds, p \in ProviderNames, path \in {<<>>, <<"x", "/", "y">>}}
  \cup {[PlainRequest EXCEPT !.providerName = p, !.headers = h,
                             !.providerPath = <<"x", "/", "y", "/", "chat">>] :
          p \in {"openai", "azure-openai", "aws-bedrock"}, h \in HeaderSets}

\* ----------------------------------------------------------- GatewayClient
\* A payload (a JS object) is a function from field names to values: a name is
\* a sequence of characters, cache_ttl a number, a rate-limiting field None for
\* null or Some(value). An absent field is not in the domain.
NameLimit == 64

Defined(payload, field) == field \in DOMAIN payload
Given(payload, field) == Defined(payload, field) /\ payload[field] # None

\* An error thrown by a validation, "" when it passes.
NoError == ""

\* GatewayClient.validateGatewayId
ValidateGatewayId(gatewayId) ==
  IF gatewayId = <<>> \/ Len(Trim(gatewayId)) = 0
    THEN "Gateway ID must be a non-empty string"
    ELSE NoError

\* GatewayClient.validateCreatePayload
ValidateCreatePayload(payload) ==
  LET hasLimit == Given(payload, "rate_limiting_limit")
      hasInterval == Given(payload, "rate_limiting_interval")
      hasTechnique == Given(payload, "rate_limiting_technique")
  IN IF ~Defined(payload, "name") \/ payload["name"] = <<>>
          \/ Len(Trim(payload["name"])) = 0
       THEN "Gateway name is required"
     ELSE IF Len(payload["name"]) > NameLimit
       THEN "Gateway name must be 64 characters or less"
     ELSE IF Defined(payload, "cache_ttl") /\ payload["cache_ttl"] < 0
       THEN "Cache TTL must be non-negative"
     ELSE IF hasLimit /\ payload["rate_limiting_limit"][1] <= 0
       THEN "Rate limiting limit must be positive when specified"
     ELSE IF hasInterval /\ payload["rate_limiting_interval"][1] <= 0
       THEN "Rate limiting interval must be positive when specified"
     ELSE IF (hasLimit \/ hasInterval \/ hasTechnique)
               /\ ~(hasLimit /\ hasInterval /\ hasTechnique)
       THEN "When using rate limiting, limit, interval, and technique must all be specified"
     ELSE NoError

\* Mutant: an update without a field passes.
ValidateUpdatePayloadAllowsEmpty(payload) ==
  IF Defined(payload, "name")
       /\ (payload["name"] = <<>> \/ Len(Trim(payload["name"])) = 0)
    THEN "Gateway name cannot be empty"
  ELSE IF Defined(payload, "name") /\ Len(payload["name"]) > NameLimit
    THEN "Gateway name must be 64 characters or less"
  ELSE IF Defined(payload, "cache_ttl") /\ payload["cache_ttl"] < 0
    THEN "Cache TTL must be non-negative"
  ELSE NoError

\* GatewayClient.validateUpdatePayload
ValidateUpdatePayload(payload) ==
  IF Cardinality(DOMAIN payload) = 0
    THEN "Update payload must contain at least one field"
  ELSE IF Defined(payload, "name")
            /\ (payload["name"] = <<>> \/ Len(Trim(payload["name"])) = 0)
    THEN "Gateway name cannot be empty"
  ELSE IF Defined(payload, "name") /\ Len(payload["name"]) > NameLimit
    THEN "Gateway name must be 64 characters or less"
  ELSE IF Defined(payload, "cache_ttl") /\ payload["cache_ttl"] < 0
    THEN "Cache TTL must be non-negative"
  ELSE IF Given(payload, "rate_limiting_limit") /\ payload["rate_limiting_limit"][1] <= 0
    THEN "Rate limiting limit must be positive when specified"
  ELSE IF Given(payload, "rate_limiting_interval")
            /\ payload["rate_limiting_interval"][1] <= 0
    THEN "Rate limiting interval must be positive when specified"
  ELSE NoError

\* The account the client was configured with.
ClientAccountId == "test-account-123"

\* `/accounts/${accountId}/ai-gateway/gateways` and the same with `/${gatewayId}`.
GatewaysUrl == <<"/accounts/", ClientAccountId, "/ai-gateway/gateways">>
GatewayUrl(gatewayId) == GatewaysUrl \o <<"/">> \o gatewayId

\* A validation threw: the promise of the operation is rejected with the Error
\* and nothing was handed to the HTTP client.
Rejects(message) ==
  /\ res' = <<[kind |-> "Error", message |-> message]>>
  /\ stage' = "rejected"
  /\ steps' = Append(steps, "validate")
  /\ UNCHANGED <<req, gateway, authState, nextCalls, upstream>>
  /\ UNCHANGED svcVars

\* this.client.request({ method, url, data }): the request goes to axios and
\* the operation waits for it.
IssueRequest(method, url, data) ==
  /\ upstream' = <<[method |-> method, url |-> url, data |-> data, settled |-> None]>>
  /\ stage' = "requested"
  /\ steps' = Append(steps, "request")
  /\ UNCHANGED <<req, res, gateway, authState, nextCalls>>
  /\ UNCHANGED svcVars

\* GatewayClient.createGateway
CreateGateway ==
  /\ stage = "called"
  /\ req.op = "createGateway"
  /\ IF ValidateCreatePayload(req.payload) # NoError
       THEN Rejects(ValidateCreatePayload(req.payload))
       ELSE IssueRequest("POST", GatewaysUrl, Some(req.payload))

\* GatewayClient.listGateways
ListGateways ==
  /\ stage = "called"
  /\ req.op = "listGateways"
  /\ IssueRequest("GET", GatewaysUrl, None)

\* GatewayClient.getGateway
GetGateway ==
  /\ stage = "called"
  /\ req.op = "getGateway"
  /\ IF ValidateGatewayId(req.gatewayId) # NoError
       THEN Rejects(ValidateGatewayId(req.gatewayId))
       ELSE IssueRequest("GET", GatewayUrl(req.gatewayId), None)

\* GatewayClient.updateGateway
UpdateGateway ==
  /\ stage = "called"
  /\ req.op = "updateGateway"
  /\ IF ValidateGatewayId(req.gatewayId) # NoError
       THEN Rejects(ValidateGatewayId(req.gatewayId))
     ELSE IF ValidateUpdatePayload(req.payload) # NoError
       THEN Rejects(ValidateUpdatePayload(req.payload))
     ELSE IssueRequest("PUT", GatewayUrl(req.gatewayId), Some(req.payload))

\* GatewayClient.deleteGateway
DeleteGateway ==
  /\ stage = "called"
  /\ req.op = "deleteGateway"
  /\ IF ValidateGatewayId(req.gatewayId) # NoError
       THEN Rejects(ValidateGatewayId(req.gatewayId))
       ELSE IssueRequest("DELETE", GatewayUrl(req.gatewayId), None)

\* -------------------------------------------------------------- BaseClient
\* A response body: the API's wrapper, a text that is no JSON, or JSON null.
ApiBody(success, errors, result) ==
  [format |-> "api", success |-> success, errors |-> errors, result |-> result]
TextBody == [format |-> "text", success |-> FALSE, errors |-> <<>>, result |-> ""]
NullBody == [format |-> "null", success |-> FALSE, errors |-> <<>>, result |-> ""]

\* data.success and data.errors || [] of a body that is not null: a text has
\* neither property.
Success(data) == data.format = "api" /\ data.success
Errors(data) == IF data.format = "api" THEN data.errors ELSE <<>>

Returned(value) == [kind |-> "returned", value |-> value]

\* new CloudflareAPIError(message, statusCode, apiErrors)
CloudflareAPIError(message, statusCode, apiErrors) ==
  [kind |-> "CloudflareAPIError", message |-> message, statusCode |-> statusCode,
   apiErrors |-> apiErrors]

\* CloudflareAPIError.fromAPIResponse
FromAPIResponse(statusCode, apiErrors) ==
  CloudflareAPIError(IF Len(apiErrors) > 0 THEN apiErrors[1].message ELSE "Request failed",
                     statusCode, apiErrors)

\* CloudflareAPIError.fromHTTPError
FromHTTPError(statusCode, message) ==
  CloudflareAPIError(IF message # "" THEN message
                     ELSE "HTTP " \o ToString(statusCode) \o " Error",
                     statusCode, <<>>)

\* BaseClient.getStatusMessage
GetStatusMessage(status) ==
  CASE status = 400 -> "Bad Request: The request was invalid"
    [] status = 401 -> "Unauthorized: Invalid or missing API token"
    [] status = 403 -> "Forbidden: Insufficient permissions"
    [] status = 404 -> "Not Found: Resource does not exist"
    [] status = 429 -> "Rate Limited: Too many requests"
    [] status = 500 -> "Internal Server Error: Cloudflare API error"
    [] status = 502 -> "Bad Gateway: Cloudflare API temporarily unavailable"
    [] status = 503 -> "Service Unavailable: Cloudflare API maintenance"
    [] status = 504 -> "Gateway Timeout: Request timed out"
    [] OTHER -> "HTTP " \o ToString(status) \o " Error"

\* BaseClient.parseResponse, under the catch of request: reading a property of
\* a null body throws a TypeError, which request wraps with status 500.
ParseResponse(response) ==
  IF response.data.format = "null"
    THEN CloudflareAPIError("Cannot read properties of null (reading 'success')",
                            500, <<>>)
  ELSE IF ~Success(response.data)
    THEN FromAPIResponse(response.status, Errors(response.data))
  ELSE Returned(response.data.result)

\* Mutant: an error without a response is passed on as it came.
HandleAxiosErrorPassesNetworkErrors(error) ==
  IF error.kind = "response"
    THEN IF error.data.format # "null" /\ ~Success(error.data)
           THEN FromAPIResponse(error.status, Errors(error.data))
           ELSE FromHTTPError(error.status, GetStatusMessage(error.status))
    ELSE [kind |-> "AxiosError", message |-> error.message, statusCode |-> 0,
          apiErrors |-> <<>>]

\* BaseClient.handleAxiosError
HandleAxiosError(error) ==
  IF error.kind = "response"
    THEN IF error.data.format # "null" /\ ~Success(error.data)
           THEN FromAPIResponse(error.status, Errors(error.data))
           ELSE FromHTTPError(error.status, GetStatusMessage(error.status))
  ELSE IF error.kind = "request"
    THEN FromHTTPError(0, "Network error: No response received from server")
  ELSE FromHTTPError(0, IF error.message # "" THEN error.message
                        ELSE "Request setup error")

\* What awaiting this.axios.request ends in: a response, which axios resolves
\* when its status is 2xx and rejects otherwise, no response to a request that
\* was sent, or an error before anything was sent.
OkStatuses == {200, 201}
ErrorStatuses == {400, 401, 418, 500}

Bodies ==
  { ApiBody(TRUE, <<>>, "result"),
    ApiBody(FALSE, <<>>, "null"),
    ApiBody(FALSE, <<[code |-> 1003, message |-> "Invalid request parameters"]>>, "null"),
    TextBody, NullBody }

AxiosOutcomes ==
  {[kind |-> "response", status |-> st, data |-> b, message |-> ""] :
     st \in OkStatuses \cup ErrorStatuses, b \in Bodies}
  \cup {[kind |-> "request", status |-> 0, data |-> NullBody, message |-> m] :
          m \in {"timeout of 10000ms exceeded"}}
  \cup {[kind |-> "setup", status |-> 0, data |-> NullBody, message |-> m] :
          m \in {"", "Invalid URL"}}

\* BaseClient.request from the await on: a resolved response is parsed, a
\* rejection went through the response interceptor.
Request(outcome) ==
  IF outcome.kind = "response" /\ outcome.status \in OkStatuses
    THEN ParseResponse(outcome)
    ELSE HandleAxiosError(outcome)

\* The operation's promise settles with what request gave; deleteGateway
\* awaits the request and returns nothing.
AxiosSettles(outcome) ==
  /\ stage = "requested"
  /\ LET settled == Request(outcome)
     IN /\ upstream' = <<[upstream[1] EXCEPT !.settled = Some([outcome |-> outcome,
                                                               gave |-> settled])]>>
        /\ res' = <<IF settled.kind = "returned" /\ req.op = "deleteGateway"
                      THEN Returned("undefined") ELSE settled>>
  /\ stage' = "settled"
  /\ steps' = Append(steps, "settle")
  /\ UNCHANGED <<req, gateway, authState, nextCalls>>
  /\ UNCHANGED svcVars

\* The calls made on the client.
ClientGatewayIds == {<<>>, <<" ">>, <<"g", "w", "1">>}

ClientNames ==
  {<<>>, <<" ">>, <<"g", "w">>, [i \in 1..NameLimit |-> "a"],
   [i \in 1..(NameLimit + 1) |-> "a"]}

PayloadFields ==
  {"name", "cache_ttl", "collect_logs", "rate_limiting_limit",
   "rate_limiting_interval", "rate_limiting_technique"}

PayloadValues ==
  [name : ClientNames, cache_ttl : {-1, 0, 300}, collect_logs : {TRUE},
   rate_limiting_limit : {None, Some(0), Some(100)},
   rate_limiting_interval : {None, Some(60)},
   rate_limiting_technique : {None, Some("fixed")}]

Payloads ==
  {[f \in fields |-> values[f]] : fields \in SUBSET PayloadFields, values \in PayloadValues}

ClientCalls ==
  {[op |-> "createGateway", gatewayId |-> <<>>, payload |-> p] : p \in Payloads}
  \cup {[op |-> "updateGateway", gatewayId |-> id, payload |-> p] :
          id \in ClientGatewayIds, p \in Payloads}
  \cup {[op |-> o, gatewayId |-> id, payload |-> [f \in {} |-> None]] :
          o \in {"getGateway", "deleteGateway"}, id \in ClientGatewayIds}
  \cup {[op |-> "listGateways", gatewayId |-> <<>>, payload |-> [f \in {} |-> None]]}

\* -------------------------------------------------------- specifications
SvcInit ==
  /\ cache = <<>>
  /\ now = 0
  /\ pc = "idle"
  /\ call = NoCall

HttpInit ==
  /\ req = NoRequest
  /\ res = <<>>
  /\ gateway = None
  /\ authState = "none"
  /\ nextCalls = 0
  /\ stage = "down"
  /\ upstream = None
  /\ steps = <<>>

\* The service on its own, called as its unit tests call it, one call at a time.
Init == SvcInit /\ HttpInit

Next ==
  \/ \E id \in GatewayIds : GetGatewayConfig(id) /\ UNCHANGED httpVars
  \/ \E g \in AIGateway : GetFetchResolved(g) /\ UNCHANGED httpVars
  \/ GetFetchRejected /\ UNCHANGED httpVars
  \/ InitializeCache /\ UNCHANGED httpVars
  \/ \E l \in GatewayLists : InitListResolved(l) /\ UNCHANGED httpVars
  \/ InitListRejected /\ UNCHANGED httpVars
  \/ ClearCache /\ UNCHANGED httpVars
  \/ GetCacheStats /\ UNCHANGED httpVars
  \/ Tick /\ UNCHANGED httpVars

Spec == Init /\ [][Next]_vars

\* The server: startup, then one request at a time through the handler.
InitRouter ==
  /\ SvcInit
  /\ req = NoRequest
  /\ res = <<>>
  /\ gateway = None
  /\ authState = "none"
  /\ nextCalls = 0
  /\ stage = "starting"
  /\ upstream = None
  /\ steps = <<>>

NextRouter ==
  \/ StartServer
  \/ \E l \in GatewayLists : StartListed(l)
  \/ StartListFailed
  \/ \E r \in Requests : Receive(r)
  \/ \E g \in AIGateway : ResolveFetched(g)
  \/ ResolveFailed
  \/ \E response \in UpstreamResponses : UpstreamResponds(response)
  \/ RelayEnds
  \/ UpstreamFails
  \/ ProxyMiddlewareFails
  \/ Finish
  \/ Tick /\ UNCHANGED httpVars

SpecRouter == InitRouter /\ [][NextRouter]_vars

\* The auth middleware on its own: one gateway, one mock request, one run.
InitAuth ==
  /\ SvcInit
  /\ gateway \in {Some(g) : g \in AIGateway}
  /\ req \in AuthRequests
  /\ res = <<>>
  /\ authState = "unchecked"
  /\ nextCalls = 0
  /\ stage = "down"
  /\ upstream = None
  /\ steps = <<>>

NextAuth == RunValidateAuth /\ UNCHANGED svcVars

SpecAuth == InitAuth /\ [][NextAuth]_vars

\* The adapters on their own, called as their unit tests call them.
InitAdapter ==
  /\ SvcInit
  /\ req \in AdapterRequests
  /\ res = <<>>
  /\ gateway = None
  /\ authState = "none"
  /\ nextCalls = 0
  /\ stage = "down"
  /\ upstream = None
  /\ steps = <<>>

NextAdapter ==
  \/ CallGetAdapter
  \/ \E class \in AdapterClasses : NewAdapter(class)
  \/ CallConstructTargetUrl
  \/ CallTransformHeaders
  \/ CallTransformHeadersAgain

SpecAdapter == InitAdapter /\ [][NextAdapter]_vars

\* The service with calls that overlap: the cache as startup filled it, then
\* calls that start while earlier ones wait for the API.
InitOverlap ==
  /\ \E l \in OverlapLists :
       /\ cache = CacheAll(<<>>, l, 0)
       /\ call = [n \in CallIds |->
                    IF n = 0
                      THEN [NoOverlappingCall EXCEPT
                              !.op = "init", !.path = "listed", !.listed = l,
                              !.storedAt = Some(0),
                              !.holds = {l[i].id : i \in 1..Len(l)}]
                      ELSE NoOverlappingCall]
  /\ now = 0
  /\ pc = [n \in CallIds |-> IF n = 0 THEN "done" ELSE "idle"]
  /\ HttpInit

NextOverlap ==
  \/ \E n \in CallIds, id \in GatewayIds : GetGatewayConfigAs(n, id) /\ UNCHANGED httpVars
  \/ \E n \in CallIds, g \in AIGateway : FetchResolvedFor(n, g) /\ UNCHANGED httpVars
  \/ \E n \in CallIds : FetchRejectedFor(n) /\ UNCHANGED httpVars
  \/ \E n \in CallIds : InitializeCacheAs(n) /\ UNCHANGED httpVars
  \/ \E n \in CallIds, l \in OverlapLists : ListResolvedFor(n, l) /\ UNCHANGED httpVars
  \/ \E n \in CallIds : ListRejectedFor(n) /\ UNCHANGED httpVars
  \/ \E n \in CallIds : ClearCacheAs(n) /\ UNCHANGED httpVars
  \/ Tick /\ UNCHANGED httpVars

SpecOverlap == InitOverlap /\ [][NextOverlap]_vars

\* The management client on its own, one call at a time as in its unit tests.
InitClient ==
  /\ SvcInit
  /\ req \in ClientCalls
  /\ res = <<>>
  /\ gateway = None
  /\ authState = "none"
  /\ nextCalls = 0
  /\ stage = "called"
  /\ upstream = None
  /\ steps = <<>>

NextClient ==
  \/ CreateGateway
  \/ ListGateways
  \/ GetGateway
  \/ UpdateGateway
  \/ DeleteGateway
  \/ \E outcome \in AxiosOutcomes : AxiosSettles(outcome)

SpecClient == InitClient /\ [][NextClient]_vars

\* ------------------------------------------------------------- properties
\* A getGatewayConfig call that has returned.
GetDone == call.op = "get" /\ pc = "idle"

\* The age, at the moment the call read the clock, of the entry the call found.
AgeAtCall == call.startedAt - call.cachedEntry[1].timestamp

OtherEntriesKept(id) ==
  \A other \in GatewayIds \ {id} : MapGet(cache, other) = MapGet(call.before, other)

\* C1: a get on an uncached id performs exactly one fetch; a get that finds an
\* entry whose age is below the TTL performs no fetch and returns the cached
\* config; a get that finds an entry whose TTL has elapsed performs exactly one
\* fetch, and a fetch that succeeds is what the call returns.
C1_FetchCounts ==
  call.op = "get" =>
    /\ call.cachedEntry = None => call.fetches = 1
    /\ (call.cachedEntry # None /\ AgeAtCall < cacheTTL) =>
         /\ call.fetches = 0
         /\ pc = "idle"
         /\ call.result = Some(call.cachedEntry[1].gateway)
    /\ (call.cachedEntry # None /\ AgeAtCall >= cacheTTL) => call.fetches = 1
    /\ (pc = "idle" /\ call.fetched # None) => call.result = call.fetched

\* A refresh: the call found an expired entry and its fetch succeeded.
C1_Witness ==
  /\ GetDone
  /\ call.cachedEntry # None
  /\ AgeAtCall >= cacheTTL
  /\ call.fetched # None

\* A get that found an (expired) entry and whose refresh fetch failed.
StaleFallback ==
  /\ GetDone
  /\ call.cachedEntry # None
  /\ call.fetches = 1
  /\ call.fetched = None

\* C2: when the refresh of an expired entry fails, the call returns the
\* previously cached config as a normal result, the entry stays in the cache
\* as it was, and the handler goes on with that config (the auth gate runs on
\* it) and does not answer 404.
C2_StaleServed ==
  StaleFallback =>
    /\ AgeAtCall >= cacheTTL
    /\ call.result = Some(call.cachedEntry[1].gateway)
    /\ cache = call.before
    /\ MapGet(cache, call.id) = call.cachedEntry
    /\ stage \in {"forwarding", "relaying", "done"}
    /\ gateway = call.result
    /\ authState \in {"allowed", "rejected"}
    /\ authState = "allowed" <=> ValidateAuth(call.cachedEntry[1].gateway, req).next
    /\ \A i \in 1..Len(res) : res[i].status # 404

\* A request that went on to the provider on a stale config.
C2_Witness ==
  /\ StaleFallback
  /\ stage = "forwarding"
  /\ upstream # None
  /\ gateway = Some(call.cachedEntry[1].gateway)

\* C3: a get that finds no entry and whose fetch fails returns null and leaves
\* the cache exactly as it was, with no entry for the id.
C3_MissAndFailure ==
  (GetDone /\ call.cachedEntry = None /\ call.fetches = 1 /\ call.fetched = None) =>
    /\ call.result = None
    /\ cache = call.before
    /\ ~MapHas(cache, call.id)

\* The miss-and-failure case, with another gateway cached at the time.
C3_Witness ==
  /\ GetDone
  /\ call.cachedEntry = None
  /\ call.fetched = None
  /\ call.path = "null"
  /\ cache # <<>>

\* C4: after a successful fetch the cache holds exactly one entry for the id,
\* carrying the fetched config; the call returns that config; the entries of
\* all other ids are as they were.
C4_FetchStored ==
  (GetDone /\ call.fetched # None) =>
    /\ Cardinality(MapIndex(cache, call.id)) = 1
    /\ MapGet(cache, call.id) # None
    /\ MapGet(cache, call.id)[1].gateway = call.fetched[1]
    /\ call.result = call.fetched
    /\ OtherEntriesKept(call.id)

\* A fetch that overwrote an entry holding a different config, next to another entry.
C4_Witness ==
  /\ GetDone
  /\ call.fetched # None
  /\ call.cachedEntry # None
  /\ call.cachedEntry[1].gateway # call.fetched[1]
  /\ Len(cache) = 2

\* C5 as stated: an entry whose age equals the TTL exactly is served from the
\* cache without a fetch.
C5_ServedAtExactTTL ==
  (call.op = "get" /\ call.cachedEntry # None /\ AgeAtCall = cacheTTL) =>
    /\ call.fetches = 0
    /\ call.result = Some(call.cachedEntry[1].gateway)

\* C5 amended: an entry is served without a fetch exactly when its age is
\* strictly below the TTL; at an age of exactly the TTL the call fetches.
C5_ServedBelowTTLOnly ==
  (call.op = "get" /\ call.cachedEntry # None) =>
    /\ (call.fetches = 0) <=> (AgeAtCall < cacheTTL)
    /\ AgeAtCall = cacheTTL => call.fetches = 1
    /\ AgeAtCall = cacheTTL - 1 =>
         call.fetches = 0 /\ call.result = Some(call.cachedEntry[1].gateway)

\* A call that found an entry aged exactly the TTL.
C5_Witness ==
  /\ call.op = "get"
  /\ call.cachedEntry # None
  /\ AgeAtCall = cacheTTL

\* The ids of a listing.
ListedIds(l) == {l[i].id : i \in 1..Len(l)}

\* After a listing that resolved: one listing call, every record cached under
\* its id with a common timestamp, unlisted ids untouched.
C6_PreloadState ==
  (call.op = "init" /\ call.path = "listed") =>
    /\ call.lists = 1
    /\ pc = "idle"
    /\ \E t \in TimePoints :
         \A i \in 1..Len(call.listed) :
           /\ Cardinality(MapIndex(cache, call.listed[i].id)) = 1
           /\ MapGet(cache, call.listed[i].id) =
                Some([gateway |-> call.listed[i], timestamp |-> t])
    /\ \A id \in GatewayIds \ ListedIds(call.listed) :
         MapGet(cache, id) = MapGet(call.before, id)

\* A get that follows the preload for a listed id, while the entry is younger
\* than the TTL, returns the preloaded config without a fetch.
C6_PreloadStep ==
  \A id \in GatewayIds :
    ( /\ call.op = "init" /\ call.path = "listed"
      /\ id \in ListedIds(call.listed)
      /\ now - MapGet(cache, id)[1].timestamp < cacheTTL
      /\ call'.op = "get" /\ call'.id = id ) =>
        /\ call'.fetches = 0
        /\ pc' = "idle"
        /\ call'.result = Some(MapGet(cache, id)[1].gateway)

\* C6: after a successful initializeCache the listing was called exactly once,
\* every listed record is cached under its id, all with one timestamp, the
\* entries of unlisted ids are as they were, and a get for a preloaded id
\* issued while that timestamp is younger than the TTL performs no fetch.
C6_Preload == [](C6_PreloadState) /\ [][C6_PreloadStep]_vars

\* A preload of two gateways over a cache that already held one of them.
C6_Witness ==
  /\ call.op = "init" /\ call.path = "listed"
  /\ Len(call.listed) = 2
  /\ Len(call.before) = 1
  /\ cache # call.before

\* After a listing that rejected: the call is over and the cache is as it was.
C7_PreloadFailureState ==
  (call.op = "init" /\ call.path = "failed") =>
    /\ pc = "idle"
    /\ call.lists = 1
    /\ cache = call.before

\* A get that follows the failed preload for an uncached id issues a fetch.
C7_PreloadFailureStep ==
  \A id \in GatewayIds :
    ( /\ call.op = "init" /\ call.path = "failed"
      /\ ~MapHas(cache, id)
      /\ call'.op = "get" /\ call'.id = id ) =>
        /\ call'.fetches = 1
        /\ pc' = "get_await"

\* C7: a failed listing ends initializeCache normally (nothing is raised)
\* with the cache exactly as it was, and afterwards getGatewayConfig can be
\* called for every id and fetches lazily.
C7_PreloadFailure ==
  /\ [](C7_PreloadFailureState)
  /\ [][C7_PreloadFailureStep]_vars
  /\ []((call.op = "init" /\ call.path = "failed") =>
          \A id \in GatewayIds : ENABLED GetGatewayConfig(id))

\* A failed listing over a cache that held an entry.
C7_Witness ==
  /\ call.op = "init" /\ call.path = "failed"
  /\ call.before # <<>>

\* The keys of a stats answer are pairwise distinct.
DistinctKeys(entries) ==
  \A i, j \in 1..Len(entries) : entries[i] = entries[j] => i = j

\* After clearCache the map is empty; a stats answer reports as its size the
\* number of keys it lists, each key once.
C8_ClearState ==
  /\ (call.op = "clear") => (cache = <<>> /\ MapSize(cache) = 0 /\ pc = "idle")
  /\ (call.op = "stats") =>
       /\ call.stats.size = Len(call.stats.entries)
       /\ DistinctKeys(call.stats.entries)
       /\ call.stats.size = Cardinality({id \in GatewayIds : MapHas(cache, id)})

\* Right after a clear, a get fetches and the stats are zero.
C8_ClearStep ==
  /\ \A id \in GatewayIds :
       (call.op = "clear" /\ call'.op = "get" /\ call'.id = id) =>
         (call'.fetches = 1 /\ pc' = "get_await")
  /\ (call.op = "clear" /\ call'.op = "stats") =>
       call'.stats = [size |-> 0, entries |-> <<>>]

\* C8: after clearCache the cache is empty, getCacheStats then reports size 0
\* and no keys, the reported size is always the number of (distinct) keys
\* reported, and the next get for any id issues a fetch.
C8_Clear == [](C8_ClearState) /\ [][C8_ClearStep]_vars

\* A clearCache that emptied a cache of two entries.
C8_Witness ==
  /\ call.op = "clear"
  /\ Len(call.before) = 2
  /\ cache = <<>>

\* The map without the entry of one id, the others kept in place.
Without(m, id) == SelectSeq(m, LAMBDA e : e.key # id)

\* C9 as stated: the service has an operation that removes exactly the entry
\* of a given id and leaves every other entry unchanged.
C9_InvalidateOffered ==
  \A id \in GatewayIds :
    (pc = "idle" /\ MapHas(cache, id)) =>
      ENABLED (Next /\ cache' = Without(cache, id))

\* C9 amended: the only operation that removes an entry is clearCache, which
\* removes all of them; no operation removes one entry and keeps another.
C9_RemovalIsClear ==
  [][ (\E id \in GatewayIds : MapHas(cache, id) /\ ~MapHas(cache', id)) =>
        (cache' = <<>> /\ call'.op = "clear") ]_vars

\* A clearCache over two entries: the removal of one came with the removal of the other.
C9_Witness ==
  /\ call.op = "clear"
  /\ \A id \in GatewayIds : MapHas(call.before, id)
  /\ \A id \in GatewayIds : ~MapHas(cache, id)

\* What a finished run of the gate did: its state and the responses it sent.
GateOutcome ==
  [state |-> authState, nexts |-> nextCalls,
   sent |-> [i \in 1..Len(res) |-> [status |-> res[i].status, message |-> res[i].message]]]

GateAllowed == [state |-> "allowed", nexts |-> 1, sent |-> <<>>]

GateRejected(status, message) ==
  [state |-> "rejected", nexts |-> 0,
   sent |-> <<[status |-> status, message |-> message]>>]

\* The cf-aig-authorization value of the request, if it carries the header.
AuthValue == Header(req.headers, "cf-aig-authorization")

BlankAfterScheme(value) ==
  \A i \in (Len(BearerPrefix) + 1)..Len(value) : value[i] \in WhiteSpace

\* The decision table of the claim, for a header value that is present.
DecisionForValue(value) ==
  IF ~StartsWith(value, BearerPrefix)
    THEN GateRejected(401, "cf-aig-authorization header must start with \"Bearer \"")
  ELSE IF BlankAfterScheme(value)
    THEN GateRejected(403, "Invalid authorization token")
    ELSE GateAllowed

HeaderRequired == GateRejected(401, "cf-aig-authorization header is required")

\* C10 as stated: the gate allows when the gateway does not require auth;
\* otherwise it answers 401 "header is required" when the header is missing,
\* and decides every value that is present by the table above.
C10_GateAsStated ==
  (authState # "unchecked" /\ gateway # None) =>
    GateOutcome =
      IF ~gateway[1].collect_logs THEN GateAllowed
      ELSE IF AuthValue = None THEN HeaderRequired
      ELSE DecisionForValue(AuthValue[1])

\* C10 amended: as stated, except that a header present with an empty value is
\* answered like a missing one, with 401 "header is required".
C10_GateDecision ==
  (authState # "unchecked" /\ gateway # None) =>
    GateOutcome =
      IF ~gateway[1].collect_logs THEN GateAllowed
      ELSE IF AuthValue = None \/ AuthValue = Some(<<>>) THEN HeaderRequired
      ELSE DecisionForValue(AuthValue[1])

\* A run that answered 403 to a token made of white space only.
C10_Witness ==
  /\ authState = "rejected"
  /\ gateway # None /\ gateway[1].collect_logs
  /\ AuthValue = Some(BearerPrefix \o <<" ", "\t">>)
  /\ Len(res) = 1 /\ res[1].status = 403

\* A request is in the handler's hands or has been dealt with.
InHandler == stage \in {"resolving", "forwarding", "relaying", "done"}

\* How often a step ran for the request.
Ran(step) == Cardinality({i \in 1..Len(steps) : steps[i] = step})

\* The statuses of the responses sent for the request, in order.
Statuses == [i \in 1..Len(res) |-> res[i].status]

\* C11: a run of the auth gate ends allowed or rejected, never both and never
\* undecided. Allowed: the continuation was invoked exactly once and the gate
\* sent nothing. Rejected: the gate sent exactly one response, a 401 or a 403,
\* the continuation was not invoked, and no adapter was selected, no URL
\* built and nothing forwarded for the request.
C11_GateOutcome ==
  /\ Ran("auth") <= 1
  /\ Ran("auth") = 0 => (authState = "none" /\ nextCalls = 0)
  /\ Ran("auth") = 1 =>
       /\ authState \in {"allowed", "rejected"}
       /\ authState = "allowed" =>
            /\ nextCalls = 1
            /\ \A i \in 1..Len(res) : res[i].status \notin {401, 403}
            /\ Ran("adapter") = 1
       /\ authState = "rejected" =>
            /\ nextCalls = 0
            /\ Len(res) = 1
            /\ res[1].status \in {401, 403}
            /\ Some(res[1]) = ValidateAuth(gateway[1], req).response
            /\ Ran("adapter") = 0 /\ Ran("url") = 0 /\ Ran("forward") = 0
            /\ upstream = None
            /\ stage = "done"

\* A request rejected with 403 by the gate of a gateway that was just fetched.
C11_Witness ==
  /\ authState = "rejected"
  /\ call.path = "fetched"
  /\ Statuses = <<403>>

\* The handler's steps in the order of the code.
PipelineOrder == <<"parse", "resolve", "auth", "adapter", "url", "headers", "forward">>

IsPrefix(s, t) == Len(s) <= Len(t) /\ SubSeq(t, 1, Len(s)) = s

\* C12: the steps that ran for a request are an initial part of parse,
\* resolve, auth, adapter, url, headers, forward, and a request is handed to
\* the proxy only when the three path parameters are non-empty, a config was
\* resolved and the gate allowed the request.
C12_PipelineOrder ==
  /\ IsPrefix(steps, PipelineOrder)
  /\ InHandler => steps # <<>>
  /\ (upstream # None \/ Ran("forward") > 0) =>
       /\ steps = PipelineOrder
       /\ Len(upstream) = 1
       /\ req.accountId # "" /\ req.gatewayId # "" /\ req.providerName # ""
       /\ gateway # None
       /\ gateway[1].id = req.gatewayId
       /\ authState = "allowed"
       /\ ValidateAuth(gateway[1], req).next

\* A request forwarded after its config was fetched and its token accepted.
C12_Witness ==
  /\ stage = "forwarding"
  /\ steps = PipelineOrder
  /\ call.path = "fetched"
  /\ gateway[1].collect_logs
  /\ upstream # None

\* The config lookup of the request ended with null.
ResolvedNotFound ==
  /\ stage \in {"forwarding", "relaying", "done"}
  /\ call.op = "get"
  /\ pc = "idle"
  /\ call.result = None

\* C13: when the lookup yields no config, the answer is 404 'Not Found', the
\* handler ends there, the auth gate does not run and nothing is forwarded.
C13_NotFound ==
  ResolvedNotFound =>
    /\ res = <<JsonResponse(404, "Not Found", "Gateway " \o req.gatewayId \o " not found")>>
    /\ stage = "done"
    /\ gateway = None
    /\ authState = "none" /\ nextCalls = 0 /\ Ran("auth") = 0
    /\ steps = <<"parse", "resolve">>
    /\ upstream = None

\* A 404 for a gateway that is not cached while another one is.
C13_Witness ==
  /\ ResolvedNotFound
  /\ Statuses = <<404>>
  /\ cache # <<>>
  /\ ~MapHas(cache, req.gatewayId)

\* One of the three path parameters of the request is empty.
MissingParameter ==
  InHandler /\ (req.accountId = "" \/ req.gatewayId = "" \/ req.providerName = "")

\* C14: a request with an empty accountId, gatewayId or providerName is
\* answered 400 'Bad Request'; the service is not called for it (no cache
\* read, no fetch) and no later step runs.
C14_BadRequestState ==
  MissingParameter =>
    /\ res = <<JsonResponse(400, "Bad Request",
                 "Missing required parameters: accountId, gatewayId, or providerName")>>
    /\ stage = "done"
    /\ steps = <<"parse">>
    /\ call.op # "get" /\ call.fetches = 0 /\ pc = "idle"
    /\ gateway = None /\ authState = "none" /\ nextCalls = 0
    /\ upstream = None

\* Receiving such a request leaves the cache and the service as they were.
C14_BadRequestStep ==
  (stage = "listening" /\ MissingParameter') => UNCHANGED <<cache, pc, call>>

Constructing == InHandler /\ authState = "allowed"

\* The provider of the request has no base URL and no adapter of its own.
UnsupportedProvider ==
  /\ GetAdapter(req.providerName) = "DefaultAdapter"
  /\ req.providerName \notin DOMAIN PROVIDER_BASE_URLS

\* The sub-path of an Azure request has fewer than two segments.
InvalidAzurePath ==
  /\ req.providerName = "azure-openai"
  /\ Len(SplitSlash(req.providerPath)) < 2

ConnectionFailed == upstream # None /\ upstream[1].error = Some("connection")

\* C16: when the provider cannot be reached and nothing was sent to the
\* caller yet, the caller receives 502 'Bad Gateway'; when the connection
\* breaks after the provider's status was passed on, nothing more is sent.
C16_BadGateway ==
  ConnectionFailed =>
    /\ stage = "done"
    /\ upstream[1].response = None =>
         res = <<JsonResponse(502, "Bad Gateway", "Failed to proxy request to AI provider")>>
    /\ upstream[1].response # None => res = <<Relayed(upstream[1].response[1].status)>>

\* A 502 for a request that passed the gate of an auth-enabled gateway.
C16_Witness ==
  /\ ConnectionFailed
  /\ upstream[1].response = None
  /\ gateway[1].collect_logs
  /\ Statuses = <<502>>

\* The response as the caller has it, apart from how much of its body arrived.
Head1(responses) == [responses[1] EXCEPT !.upstreamBody = None]

\* At most one response is sent for a request.
C17_OneResponseState == Len(res) <= 1

\* A response that was sent is not followed or replaced by another while the
\* request lasts.
C17_OneResponseStep ==
  (res # <<>> /\ stage' # "listening") =>
    /\ Len(res') = 1
    /\ Head1(res') = Head1(res)

\* C17: a request receives at most one terminal response: once a response is
\* sent no other is sent for the request, and a 500 is sent only when nothing
\* was sent before.
C17_OneResponse == [](C17_OneResponseState) /\ [][C17_OneResponseStep]_vars

\* The connection broke while the provider's answer was being passed on.
C17_Witness ==
  /\ ConnectionFailed
  /\ upstream[1].response # None
  /\ Len(res) = 1
  /\ res[1].status = upstream[1].response[1].status

UpstreamAnswered == upstream # None /\ upstream[1].response # None

\* C19: when the provider answers, the caller is sent the provider's status,
\* whatever it is, and no response of the proxy's own; a relay that ran to its
\* end delivered the provider's body as it was.
C19_Relay ==
  UpstreamAnswered =>
    /\ Len(res) = 1
    /\ res[1].status = upstream[1].response[1].status
    /\ res[1].error = "" /\ res[1].message = ""
    /\ res[1].upstreamBody \in {None, Some(upstream[1].response[1].body)}
    /\ (stage = "done" /\ upstream[1].error = None) =>
         res[1].upstreamBody = Some(upstream[1].response[1].body)

\* A provider's 500 relayed to its end.
C19_Witness ==
  /\ UpstreamAnswered
  /\ stage = "done"
  /\ upstream[1].error = None
  /\ upstream[1].response[1].status = 500
  /\ res[1].upstreamBody = Some(upstream[1].response[1].body)

\* C20: the headers of a request handed to the proxy hold no header whose
\* name starts, in any letter case, with cf-aig-.
C20_NoGatewayHeaderUpstream ==
  upstream # None =>
    \A name \in DOMAIN upstream[1].headers : ~IsGatewayHeader(name)

\* ---------------------------------------------------- adapters: properties
\* An adapter has been obtained; what its calls returned.
AdapterIs(class) == upstream # None /\ upstream[1].adapter = class
UrlBuilt(class) == AdapterIs(class) /\ upstream[1].targetUrl # None
HeadersTransformed(class) == AdapterIs(class) /\ upstream[1].transformed # None
TargetUrl == upstream[1].targetUrl[1]
Transformed == upstream[1].transformed[1]

\* The positions of the slashes of a sub-path, and its text between them: the
\* segment before the first slash, the one after it, and what follows the second.
Slashes(path) == {i \in 1..Len(path) : path[i] = "/"}
FirstSlash(path) == CHOOSE i \in Slashes(path) : \A j \in Slashes(path) : i <= j
SecondSlash(path) ==
  LET later == {i \in Slashes(path) : i > FirstSlash(path)}
  IN IF later = {} THEN Len(path) + 1 ELSE CHOOSE i \in later : \A j \in later : i <= j
FirstSegment(path) ==
  IF Slashes(path) = {} THEN Text(path) ELSE Text(SubSeq(path, 1, FirstSlash(path) - 1))
AfterFirstSegment(path) ==
  IF Slashes(path) = {} THEN "" ELSE Text(SubSeq(path, FirstSlash(path) + 1, Len(path)))
SecondSegment(path) ==
  IF Slashes(path) = {} THEN ""
  ELSE Text(SubSeq(path, FirstSlash(path) + 1, SecondSlash(path) - 1))
AfterSecondSegment(path) ==
  IF Slashes(path) = {} THEN "" ELSE Text(SubSeq(path, SecondSlash(path) + 1, Len(path)))
QueryOf(r) == IF r.query = None THEN "" ELSE "?" \o r.query[1]

\* The gateway-control names among the header names, whatever their letter case.
GatewayControlNames ==
  {"cf-aig-authorization", "Cf-Aig-Authorization", "CF-AIG-Custom", "cf-aig-cache-ttl"}

\* A header set without its host header and its gateway-control headers.
Forwardable(headers) ==
  [n \in {k \in DOMAIN headers : k # "host" /\ k \notin GatewayControlNames} |-> headers[n]]

\* C21: the adapter the factory returns is decided by the provider name alone:
\* 'azure-openai' gives the Azure adapter, 'aws-bedrock' the Bedrock adapter,
\* any other name the generic one; the factory can always be called, and one
\* adapter is in use.
C21_AdapterSelection ==
  /\ upstream = None => ENABLED CallGetAdapter
  /\ Len(upstream) <= 1
  /\ (upstream # None /\ upstream[1].via = "getAdapter") =>
       upstream[1].adapter =
         (IF req.providerName = "azure-openai" THEN "AzureOpenAIAdapter"
          ELSE IF req.providerName = "aws-bedrock" THEN "BedrockAdapter"
          ELSE "DefaultAdapter")

C21_Witness ==
  /\ upstream # None
  /\ upstream[1].via = "getAdapter"
  /\ req.providerName = "Azure-OpenAI"
  /\ upstream[1].adapter = "DefaultAdapter"
  /\ upstream[1].targetUrl # None

\* C22: for a provider name that is not in the base-URL table the factory
\* gives the generic adapter, and its URL construction fails with the
\* unsupported-provider error and yields no URL.
C22_UnsupportedProviderError ==
  (/\ upstream # None
   /\ upstream[1].via = "getAdapter"
   /\ req.providerName \notin DOMAIN PROVIDER_BASE_URLS
   /\ upstream[1].targetUrl # None) =>
     /\ upstream[1].adapter = "DefaultAdapter"
     /\ TargetUrl.threw
     /\ TargetUrl.url = ""
     /\ TargetUrl.error = "Unsupported provider: " \o req.providerName

\* C23: for a provider of the table with a non-empty base URL the generic
\* adapter's target is the base URL with the {accountId} placeholder replaced
\* by the account id, then "/" and the sub-path as it came, whatever the
\* original URL was.
C23_GenericTargetUrl ==
  (/\ UrlBuilt("DefaultAdapter")
   /\ req.providerName \in DOMAIN PROVIDER_BASE_URLS
   /\ PROVIDER_BASE_URLS[req.providerName] # <<>>) =>
     LET baseUrl == PROVIDER_BASE_URLS[req.providerName]
         replaced == [i \in 1..Len(baseUrl) |->
                        IF baseUrl[i] = "{accountId}" THEN req.accountId ELSE baseUrl[i]]
     IN /\ ~TargetUrl.threw
        /\ TargetUrl.url = Text(replaced) \o "/" \o Text(req.providerPath)

\* C24: the generic adapter's header transform removes the host header and
\* every header whose name is cf-aig-authorization or starts with cf-aig-,
\* whatever its letter case; every other header is in the output with its name
\* and value; the headers handed in are left as they were.
C24_GenericHeadersState ==
  HeadersTransformed("DefaultAdapter") => Transformed = Forwardable(req.headers)

C24_GenericHeadersStep == req' = req

C25_AzureTargetUrl ==
  (UrlBuilt("AzureOpenAIAdapter") /\ Slashes(req.providerPath) # {}) =>
     /\ ~TargetUrl.threw
     /\ TargetUrl.url = "https://" \o FirstSegment(req.providerPath)
                          \o ".openai.azure.com/openai/deployments/"
                          \o SecondSegment(req.providerPath) \o "/"
                          \o AfterSecondSegment(req.providerPath) \o QueryOf(req)

C25_Witness ==
  /\ UrlBuilt("AzureOpenAIAdapter")
  /\ req.providerPath = <<"x", "/", "y", "/", "x">>
  /\ req.query = Some("api-version=1")
  /\ TargetUrl.url = "https://x.openai.azure.com/openai/deployments/y/x?api-version=1"

\* C26: the Azure adapter's URL construction fails with the invalid-path error
\* and yields no URL for every sub-path that does not give both a resource
\* name and a deployment name.
C26_InvalidAzurePath ==
  (/\ UrlBuilt("AzureOpenAIAdapter")
   /\ (FirstSegment(req.providerPath) = "" \/ SecondSegment(req.providerPath) = "")) =>
     /\ TargetUrl.threw
     /\ TargetUrl.url = ""
     /\ TargetUrl.error = "Azure OpenAI path must include resource_name and deployment_name"

\* C27: when a header named Authorization in any letter case has a value that
\* starts with "Bearer ", the Azure adapter's header transform outputs no
\* Authorization header and an api-key header with the text after "Bearer ";
\* host and the cf-aig-* headers are removed and the other headers pass.
C27_BearerToApiKey ==
  LET bearers == {n \in AuthorizationNames \cap DOMAIN req.headers :
                    StartsWith(req.headers[n], BearerPrefix)}
  IN (HeadersTransformed("AzureOpenAIAdapter") /\ bearers # {}) =>
       /\ AuthorizationNames \cap DOMAIN Transformed = {}
       /\ "api-key" \in DOMAIN Transformed
       /\ \E n \in bearers : Transformed["api-key"] = Substring(req.headers[n], 7)
       /\ \A n \in DOMAIN Forwardable(req.headers) \ (AuthorizationNames \cup {"api-key"}) :
            n \in DOMAIN Transformed /\ Transformed[n] = req.headers[n]
       /\ DOMAIN Transformed \subseteq DOMAIN Forwardable(req.headers) \cup {"api-key"}

\* C28: when no Authorization header has a value that starts with "Bearer ",
\* the Azure adapter's header transform removes host and the cf-aig-* headers
\* and nothing else, and adds nothing: an Authorization header of another
\* scheme is in the output and no api-key header is introduced.
C28_NonBearerUntouched ==
  (/\ HeadersTransformed("AzureOpenAIAdapter")
   /\ \A n \in AuthorizationNames \cap DOMAIN req.headers :
        ~StartsWith(req.headers[n], BearerPrefix)) =>
     Transformed = Forwardable(req.headers)

\* C29: the Bedrock adapter takes the first segment of the sub-path as the
\* region and builds https://bedrock-runtime.{region}.amazonaws.com/{rest};
\* the empty sub-path, which has no region, is an error and yields no URL.
C29_BedrockTargetUrl ==
  UrlBuilt("BedrockAdapter") =>
    IF req.providerPath = <<>>
      THEN TargetUrl.threw /\ TargetUrl.url = ""
      ELSE /\ ~TargetUrl.threw
           /\ TargetUrl.url = "https://bedrock-runtime." \o FirstSegment(req.providerPath)
                                \o ".amazonaws.com/" \o AfterFirstSegment(req.providerPath)

C31_TransformIdempotent ==
  (upstream # None /\ upstream[1].again # None) =>
    upstream[1].again[1] = Transformed

C31_Witness ==
  /\ AdapterIs("AzureOpenAIAdapter")
  /\ upstream[1].again # None
  /\ DOMAIN req.headers = {"authorization", "Cf-Aig-Authorization", "CF-AIG-Custom"}
  /\ req.headers["authorization"] = BearerPrefix \o <<"k">>
  /\ upstream[1].again[1] = [n \in {"api-key"} |-> <<"k">>]

\* -------------------------------------------------- the client: properties
\* The invalid inputs of a call on the client.
BlankGatewayId ==
  /\ req.op \in {"getGateway", "updateGateway", "deleteGateway"}
  /\ \A i \in 1..Len(req.gatewayId) : req.gatewayId[i] \in WhiteSpace
BadName ==
  /\ req.op \in {"createGateway", "updateGateway"}
  /\ "name" \in DOMAIN req.payload
  /\ (Len(req.payload["name"]) = 0 \/ Len(req.payload["name"]) > 64)
NegativeCacheTtl ==
  /\ req.op \in {"createGateway", "updateGateway"}
  /\ "cache_ttl" \in DOMAIN req.payload
  /\ req.payload["cache_ttl"] < 0
EmptyUpdate == req.op = "updateGateway" /\ DOMAIN req.payload = {}
PartialRateLimiting ==
  LET given == {f \in {"rate_limiting_limit", "rate_limiting_interval",
                       "rate_limiting_technique"} :
                  f \in DOMAIN req.payload /\ req.payload[f] # <<>>}
  IN req.op = "createGateway" /\ Cardinality(given) \in {1, 2}
InvalidCall ==
  BlankGatewayId \/ BadName \/ NegativeCacheTtl \/ EmptyUpdate \/ PartialRateLimiting

\* C32: a call with an invalid input (blank gateway id; empty or over-long
\* name; negative cache_ttl; update without a field; on create, some but not
\* all of the rate-limiting fields) ends in a thrown error and no HTTP request
\* is ever issued for it.
C32_InvalidNeverRequested ==
  InvalidCall =>
    /\ upstream = None
    /\ stage \in {"called", "rejected"}
    /\ stage = "rejected" => (res # <<>> /\ res[1].kind = "Error")
    /\ stage = "called" =>
         ENABLED (NextClient /\ stage' = "rejected")

C32_Witness ==
  /\ stage = "rejected"
  /\ req.op = "updateGateway"
  /\ req.gatewayId = <<"g", "w", "1">>
  /\ DOMAIN req.payload = {}
  /\ res[1].message = "Update payload must contain at least one field"
  /\ upstream = None

\* C33: a request that fails surfaces as a CloudflareAPIError: a body with
\* success false, a 4xx or 5xx response (with its status), no response and a
\* set-up error (status 0), any other error (status 500); the request returns
\* only for a 2xx response whose body has success true, and returns its result.
C33_RequestOutcome ==
  stage = "settled" =>
    LET outcome == upstream[1].settled[1].outcome
        gave == upstream[1].settled[1].gave
        ok == /\ outcome.kind = "response"
              /\ outcome.status \in 200..299
              /\ outcome.data.format = "api"
              /\ outcome.data.success
    IN /\ gave.kind \in {"returned", "CloudflareAPIError"}
       /\ res[1].kind = gave.kind
       /\ gave.kind = "returned" <=> ok
       /\ ok => gave.value = outcome.data.result
       /\ outcome.kind \in {"request", "setup"} => gave.statusCode = 0
       /\ (outcome.kind = "response" /\ outcome.status >= 400) =>
            gave.statusCode = outcome.status
       /\ (outcome.kind = "response" /\ outcome.status \in 200..299
             /\ outcome.data.format = "null") => gave.statusCode = 500

C33_Witness ==
  /\ stage = "settled"
  /\ upstream[1].settled[1].outcome.kind = "request"
  /\ res[1].kind = "CloudflareAPIError"
  /\ res[1].statusCode = 0
  /\ res[1].message = "Network error: No response received from server"

\* ------------------------------------------- failed refreshes: properties
\* An entry that is in the cache and past its TTL.
Expired(m, id, t) == MapHas(m, id) /\ ~IsFresh(MapGet(m, id), t)

\* C38: a refresh that fails leaves the cache as it was, the stale entry's
\* config and timestamp included; an entry past its TTL stays so until it is
\* replaced, every getGatewayConfig for it issues a fetch, and a fetch that
\* succeeds replaces it.
C38_FailedRefreshState ==
  (pc = "idle" /\ call.op = "get" /\ call.path = "stale") =>
    /\ cache = call.before
    /\ MapGet(cache, call.id) = call.cachedEntry
    /\ Expired(cache, call.id, now)

C38_FailedRefreshStep ==
  /\ \A id \in GatewayIds :
       /\ (Expired(cache, id, now) /\ MapGet(cache', id) = MapGet(cache, id)) =>
            Expired(cache', id, now')
       /\ (Expired(cache, id, now) /\ GetGatewayConfig(id)) =>
            (pc' = "get_await" /\ call'.fetches = 1)
  /\ (pc = "get_await" /\ pc' = "idle" /\ call'.path \in {"stale", "null"}) =>
       cache' = cache
  /\ (pc = "get_await" /\ pc' = "idle" /\ call'.path = "fetched") =>
       MapGet(cache', call.id) = Some([gateway |-> call'.fetched[1], timestamp |-> now])

C38_FailedRefresh == [](C38_FailedRefreshState) /\ [][C38_FailedRefreshStep]_vars

C38_Witness ==
  /\ pc = "idle"
  /\ call.op = "get"
  /\ call.path = "stale"
  /\ call.cachedEntry[1].timestamp > 0
  /\ MapGet(cache, call.id) = call.cachedEntry
  /\ Expired(cache, call.id, now)

\* ----------------------------------------------- the auth gate: properties
\* What a run of the gate did, as the middleware's outcome record.
Observed ==
  [next |-> authState = "allowed" /\ nextCalls = 1,
   response |-> IF res = <<>> THEN None ELSE Some(res[1])]

StoredBy(h, key) ==
  IF call[h].storedAt = None THEN {}
  ELSE IF call[h].op = "get"
    THEN {[gateway |-> call[h].fetched[1], timestamp |-> call[h].storedAt[1]]}
    ELSE {[gateway |-> call[h].listed[i], timestamp |-> call[h].storedAt[1]] :
            i \in {x \in 1..Len(call[h].listed) : call[h].listed[x].id = key}}

\* C34: whatever the order in which overlapping calls start, resume and
\* clear, a key has at most one entry, and every entry is the pair of config
\* and timestamp that one store wrote, for the key it is under.
C34_CacheWhole ==
  /\ \A i, j \in 1..Len(cache) : cache[i].key = cache[j].key => i = j
  /\ \A i \in 1..Len(cache) :
       /\ cache[i].value.gateway.id = cache[i].key
       /\ \E h \in CallIds :
            /\ Holders(cache[i].key) = {h}
            /\ cache[i].value \in StoredBy(h, cache[i].key)

C34_Witness ==
  /\ call[1].op = "get"
  /\ call[2].op = "get"
  /\ call[1].id = call[2].id
  /\ call[1].path = "fetched"
  /\ call[2].path = "fetched"
  /\ call[1].replaced = {2}
  /\ call[1].fetched # call[2].fetched
  /\ call[1].storedAt # call[2].storedAt
  /\ MapGet(cache, call[1].id)
       = Some([gateway |-> call[1].fetched[1], timestamp |-> call[1].storedAt[1]])

\* C35: a getGatewayConfig that returns through the stale fallback returns
\* the config the cache holds for the id when it returns.
C35_StaleIsCurrent ==
  \A n \in CallIds :
    call[n].path = "stale" =>
      /\ call[n].cacheAtReturn # None
      /\ call[n].cacheAtReturn[1].gateway = call[n].result[1]

\* C36: a fetch result is never stored over the entry of a fetch that was
\* issued later, and when all calls are over an entry that a fetch stored is
\* that of the last issued fetch that succeeded for the id.
C36_NeverBackwards ==
  /\ \A n \in CallIds :
       (call[n].op = "get" /\ call[n].path = "fetched") =>
         \A h \in call[n].replaced : call[h].op = "get" => h < n
  /\ (\A n \in CallIds : pc[n] = "done") =>
       \A n \in CallIds :
         (call[n].op = "get" /\ call[n].id \in call[n].holds) =>
           \A later \in CallIds :
             (later > n /\ call[later].op = "get" /\ call[later].id = call[n].id) =>
               call[later].path # "fetched"

\* C37: once clearCache has run, an entry is in the cache only if a call that
\* started after the clear stored it.
C37_NoRepopulation ==
  \A c \in CallIds :
    call[c].op = "clear" =>
      \A i \in 1..Len(cache) : \A h \in Holders(cache[i].key) : h > c

====
